---- MODULE Spec2Model ----
(***************************************************************************)
(* A model of jsonschema-valid: the recursive validation engine (descend   *)
(* and the keyword validators of validators.rs), the draft tables of       *)
(* schemas.rs, the reference resolver of resolver.rs, the value comparator *)
(* of unique.rs and Config.from_schema of config.rs.                       *)
(*                                                                         *)
(* JSON values are tagged records.  A number keeps the serde_json encoding *)
(* (PosInt = "u64", NegInt = "i64", Float = "f64") and its value in halves *)
(* (h = 2 * value), so that 1, 1.0 and 1.5 are three different values and  *)
(* 1 and 1.0 have the same as_f64.  An object is the sequence of its       *)
(* <<key, value>> pairs in the iteration order of serde_json::Map.         *)
(***************************************************************************)
EXTENDS Integers, Sequences, FiniteSets, TLC

\* ------------------------------------------------------------------ values

Null == [t |-> "null"]
Bool(b) == [t |-> "bool", b |-> b]
PosInt(n) == [t |-> "num", enc |-> "u64", h |-> 2 * n]
NegInt(n) == [t |-> "num", enc |-> "i64", h |-> 2 * n]
Float(h) == [t |-> "num", enc |-> "f64", h |-> h]
Str(s) == [t |-> "str", s |-> s]
Arr(a) == [t |-> "arr", a |-> a]
Obj(kv) == [t |-> "obj", kv |-> kv]

IsNull(v) == v.t = "null"
IsBool(v) == v.t = "bool"
IsNumber(v) == v.t = "num"
IsString(v) == v.t = "str"
IsArray(v) == v.t = "arr"
IsObject(v) == v.t = "obj"

\* serde_json::Number
is_f64(n) == n.enc = "f64"
is_u64(n) == n.enc = "u64"
is_i64(n) == n.enc \in {"u64", "i64"}
as_f64(n) == n.h

\* serde_json::Map
contains_key(m, k) == \E i \in 1..Len(m) : m[i][1] = k
get(m, k) == m[CHOOSE i \in 1..Len(m) : m[i][1] = k][2]
keys(m) == [i \in 1..Len(m) |-> m[i][1]]

\* The Option returned by Value::as_bool / as_str / as_object / as_array.
None == [t |-> "none"]
IsSome(v) == v.t # "none"
get_opt(m, k) == IF contains_key(m, k) THEN get(m, k) ELSE None

\* PartialEq of serde_json::Value (derived): the encodings of a number are
\* different variants, so PosInt(1) and Float(2) are unequal.
ValueEq(x, y) == x = y

\* ------------------------------------------------------------------ util.rs

EMPTY_SCHEMA == Obj(<<>>)
INVERSE_SCHEMA == Obj(<< <<"not", Obj(<<>>)>> >>)

bool_to_object_schema(schema) == IF IsBool(schema) THEN (IF schema.b THEN EMPTY_SCHEMA ELSE INVERSE_SCHEMA) ELSE schema

iter_or_once(instance) == IF IsArray(instance) THEN instance.a ELSE <<instance>>

json_equal(x, y) == IF IsNumber(x) /\ IsNumber(y) THEN as_f64(x) = as_f64(y) ELSE ValueEq(x, y)

\* ------------------------------------------------------------------ schemas.rs

Drafts == {"Draft4", "Draft6", "Draft7"}

get_draft_number(draft) == CASE draft = "Draft4" -> 4 [] draft = "Draft6" -> 6 [] draft = "Draft7" -> 7

draft7_get_validator(key) ==
  CASE key = "$ref" -> "ref_"
    [] key = "additionalItems" -> "additionalItems"
    [] key = "additionalProperties" -> "additionalProperties"
    [] key = "allOf" -> "allOf"
    [] key = "anyOf" -> "anyOf"
    [] key = "const" -> "const_"
    [] key = "contains" -> "contains"
    [] key = "dependencies" -> "dependencies"
    [] key = "enum" -> "enum_"
    [] key = "exclusiveMaximum" -> "exclusiveMaximum"
    [] key = "exclusiveMinimum" -> "exclusiveMinimum"
    [] key = "format" -> "format"
    [] key = "if" -> "if_"
    [] key = "items" -> "items"
    [] key = "maxItems" -> "maxItems"
    [] key = "maxLength" -> "maxLength"
    [] key = "maxProperties" -> "maxProperties"
    [] key = "maximum" -> "maximum"
    [] key = "minItems" -> "minItems"
    [] key = "minLength" -> "minLength"
    [] key = "minProperties" -> "minProperties"
    [] key = "minimum" -> "minimum"
    [] key = "multipleOf" -> "multipleOf"
    [] key = "not" -> "not"
    [] key = "oneOf" -> "oneOf"
    [] key = "pattern" -> "pattern"
    [] key = "patternProperties" -> "patternProperties"
    [] key = "properties" -> "properties"
    [] key = "propertyNames" -> "propertyNames"
    [] key = "required" -> "required"
    [] key = "type" -> "type_"
    [] key = "uniqueItems" -> "uniqueItems"
    [] OTHER -> "None"

\* a Draft 6 table that is the Draft 7 table
draft6_get_validator_of_draft7(key) == draft7_get_validator(key)

draft6_get_validator(key) ==
  CASE key = "$ref" -> "ref_"
    [] key = "additionalItems" -> "additionalItems"
    [] key = "additionalProperties" -> "additionalProperties"
    [] key = "allOf" -> "allOf"
    [] key = "anyOf" -> "anyOf"
    [] key = "const" -> "const_"
    [] key = "contains" -> "contains"
    [] key = "dependencies" -> "dependencies"
    [] key = "enum" -> "enum_"
    [] key = "exclusiveMaximum" -> "exclusiveMaximum"
    [] key = "exclusiveMinimum" -> "exclusiveMinimum"
    [] key = "format" -> "format"
    [] key = "items" -> "items"
    [] key = "maxItems" -> "maxItems"
    [] key = "maxLength" -> "maxLength"
    [] key = "maxProperties" -> "maxProperties"
    [] key = "maximum" -> "maximum"
    [] key = "minItems" -> "minItems"
    [] key = "minLength" -> "minLength"
    [] key = "minProperties" -> "minProperties"
    [] key = "minimum" -> "minimum"
    [] key = "multipleOf" -> "multipleOf"
    [] key = "not" -> "not"
    [] key = "oneOf" -> "oneOf"
    [] key = "pattern" -> "pattern"
    [] key = "patternProperties" -> "patternProperties"
    [] key = "properties" -> "properties"
    [] key = "propertyNames" -> "propertyNames"
    [] key = "required" -> "required"
    [] key = "type" -> "type_"
    [] key = "uniqueItems" -> "uniqueItems"
    [] OTHER -> "None"

draft4_get_validator(key) ==
  CASE key = "$ref" -> "ref_"
    [] key = "additionalItems" -> "additionalItems"
    [] key = "additionalProperties" -> "additionalProperties"
    [] key = "allOf" -> "allOf"
    [] key = "anyOf" -> "anyOf"
    [] key = "dependencies" -> "dependencies"
    [] key = "enum" -> "enum_"
    [] key = "format" -> "format"
    [] key = "items" -> "items"
    [] key = "maxItems" -> "maxItems"
    [] key = "maxLength" -> "maxLength"
    [] key = "maxProperties" -> "maxProperties"
    [] key = "maximum" -> "maximum_draft4"
    [] key = "minItems" -> "minItems"
    [] key = "minLength" -> "minLength"
    [] key = "minProperties" -> "minProperties"
    [] key = "minimum" -> "minimum_draft4"
    [] key = "multipleOf" -> "multipleOf"
    [] key = "not" -> "not"
    [] key = "oneOf" -> "oneOf"
    [] key = "pattern" -> "pattern"
    [] key = "patternProperties" -> "patternProperties"
    [] key = "properties" -> "properties"
    [] key = "required" -> "required"
    [] key = "type" -> "type_"
    [] key = "uniqueItems" -> "uniqueItems"
    [] OTHER -> "None"

get_validator(draft, key) ==
  CASE draft = "Draft4" -> draft4_get_validator(key)
    [] draft = "Draft6" -> draft6_get_validator(key)
    [] draft = "Draft7" -> draft7_get_validator(key)

\* draft_from_url that takes the URI with the empty fragment as well
draft_from_url_fragment(url) ==
  CASE url \in {"http://json-schema.org/draft-07/schema", "http://json-schema.org/draft-07/schema#"} -> "Draft7"
    [] url \in {"http://json-schema.org/draft-06/schema", "http://json-schema.org/draft-06/schema#"} -> "Draft6"
    [] url \in {"http://json-schema.org/draft-04/schema", "http://json-schema.org/draft-04/schema#"} -> "Draft4"
    [] OTHER -> "None"

draft_from_url(url) ==
  CASE url = "http://json-schema.org/draft-07/schema" -> "Draft7"
    [] url = "http://json-schema.org/draft-06/schema" -> "Draft6"
    [] url = "http://json-schema.org/draft-04/schema" -> "Draft4"
    [] OTHER -> "None"

draft_from_schema(schema) ==
  IF IsObject(schema) /\ contains_key(schema.kv, "$schema") /\ IsString(get(schema.kv, "$schema"))
  THEN draft_from_url(get(schema.kv, "$schema").s)
  ELSE "None"

\* ------------------------------------------------------------------ url crate
\* A URL or a relative reference, parsed.  path holds the segments after the
\* leading "/" ("document:///" has the one empty segment); frag is the text
\* after "#".  Strings are parsed by looking them up among the references a
\* schema of the model can hold (RefUniverse).

DOCUMENT_PROTOCOL == "document:///"

AbsUrl(scheme, host, path, hasFrag, frag) == [abs |-> TRUE, scheme |-> scheme, host |-> host, path |-> path, rooted |-> TRUE, hasFrag |-> hasFrag, frag |-> frag]
RelRef(path, rooted, hasFrag, frag) == [abs |-> FALSE, scheme |-> "", host |-> "", path |-> path, rooted |-> rooted, hasFrag |-> hasFrag, frag |-> frag]

RECURSIVE PathString(_)
PathString(path) == IF path = <<>> THEN "" ELSE IF Len(path) = 1 THEN path[1] ELSE path[1] \o "/" \o PathString(Tail(path))

\* Url::to_string / Url::as_str
to_string(u) == (IF u.abs THEN u.scheme \o "://" \o u.host \o "/" ELSE IF u.rooted THEN "/" ELSE "") \o PathString(u.path) \o (IF u.hasFrag THEN "#" \o u.frag ELSE "")

Fragments == {"", "/definitions/a", "/definitions/b", "/definitions/c", "/nowhere", "/not", "/properties/a", "/items/0", "/%FF", "foo"}

Resources == {<<"document", "", <<"">> >>, <<"http", "json-schema.org", <<"draft-07", "schema">> >>, <<"http", "json-schema.org", <<"draft-06", "schema">> >>, <<"http", "json-schema.org", <<"draft-04", "schema">> >>, <<"http", "example.com", <<"root.json">> >>, <<"http", "example.com", <<"item.json">> >>, <<"http", "example.com", <<"folder", "">> >>, <<"http", "example.com", <<"folder", "item.json">> >>, <<"http", "unknown.example", <<"x.json">> >>}

RelPaths == {<<>>, <<"item.json">>, <<"folder", "">>, <<"root.json">>}

RefUniverse == {AbsUrl(r[1], r[2], r[3], FALSE, "") : r \in Resources} \cup {AbsUrl(r[1], r[2], r[3], TRUE, f) : r \in Resources, f \in Fragments} \cup {RelRef(p, FALSE, FALSE, "") : p \in RelPaths} \cup {RelRef(p, FALSE, TRUE, f) : p \in RelPaths, f \in Fragments}

\* The parse of a string as a URL reference: ok = FALSE for a string that is
\* no reference (url::ParseError).
ParseRef(s) == IF \E u \in RefUniverse : to_string(u) = s THEN [ok |-> TRUE, u |-> CHOOSE u \in RefUniverse : to_string(u) = s] ELSE [ok |-> FALSE, u |-> RelRef(<<>>, FALSE, FALSE, "")]

\* Url::parse: a relative reference has no base (ParseError::RelativeUrlWithoutBase).
AbsoluteOnly(p) == IF p.ok /\ p.u.abs THEN p ELSE [ok |-> FALSE, u |-> p.u]
UrlParse(s) == AbsoluteOnly(ParseRef(s))

Front(seq) == SubSeq(seq, 1, Len(seq) - 1)

\* Url::join (RFC 3986 reference resolution; the model has no query and no dot segments)
Resolved(base, r) == IF r.abs THEN r ELSE AbsUrl(base.scheme, base.host, IF r.path = <<>> THEN base.path ELSE IF r.rooted THEN r.path ELSE Front(base.path) \o r.path, r.hasFrag, r.frag)
JoinParsed(base, p) == IF ~p.ok THEN [ok |-> FALSE, u |-> base] ELSE [ok |-> TRUE, u |-> Resolved(base, p.u)]
UrlJoin(base, s) == JoinParsed(base, ParseRef(s))

set_fragment_none(u) == [u EXCEPT !.hasFrag = FALSE, !.frag = ""]

\* percent_encoding::percent_decode(..).decode_utf8()
percent_decode(s) == CASE s = "/definitions/a%25" -> "/definitions/a%" [] OTHER -> s
\* decode_utf8().is_ok(): "%FF" decodes to a byte that is no UTF-8
decode_utf8_ok(s) == s # "/%FF"

\* ------------------------------------------------------------------ JSON pointer
\* Value::pointer: "" is the document; a pointer must start with "/"; its
\* tokens are the parts between the slashes.
PointerTokens(p) ==
  CASE p = "" -> [ok |-> TRUE, toks |-> <<>>]
    [] p = "/definitions/a" -> [ok |-> TRUE, toks |-> <<"definitions", "a">>]
    [] p = "/definitions/b" -> [ok |-> TRUE, toks |-> <<"definitions", "b">>]
    [] p = "/definitions/c" -> [ok |-> TRUE, toks |-> <<"definitions", "c">>]
    [] p = "/nowhere" -> [ok |-> TRUE, toks |-> <<"nowhere">>]
    [] p = "/not" -> [ok |-> TRUE, toks |-> <<"not">>]
    [] p = "/properties/a" -> [ok |-> TRUE, toks |-> <<"properties", "a">>]
    [] p = "/items/0" -> [ok |-> TRUE, toks |-> <<"items", "0">>]
    [] OTHER -> [ok |-> FALSE, toks |-> <<>>]

\* parse_index: the array index a token denotes, -1 when it denotes none
parse_index(tok) == CASE tok = "0" -> 0 [] tok = "1" -> 1 [] tok = "2" -> 2 [] OTHER -> -1

RECURSIVE PointerWalk(_, _)
PointerWalk(doc, toks) ==
  IF toks = <<>> THEN doc
  ELSE IF IsObject(doc) THEN (IF contains_key(doc.kv, toks[1]) THEN PointerWalk(get(doc.kv, toks[1]), Tail(toks)) ELSE None)
  ELSE IF IsArray(doc) THEN (IF parse_index(toks[1]) >= 0 /\ parse_index(toks[1]) < Len(doc.a) THEN PointerWalk(doc.a[parse_index(toks[1]) + 1], Tail(toks)) ELSE None)
  ELSE None

pointer(doc, p) == LET t == PointerTokens(p) IN IF t.ok THEN PointerWalk(doc, t.toks) ELSE None

\* ------------------------------------------------------------------ resolver.rs

id_of(draft, schema) ==
  IF IsObject(schema)
  THEN LET found == IF draft = "Draft4"
                    THEN (IF contains_key(schema.kv, "$id") THEN get(schema.kv, "$id") ELSE get_opt(schema.kv, "id"))
                    ELSE get_opt(schema.kv, "$id")
       IN IF IsSome(found) /\ IsString(found) THEN found ELSE None
  ELSE None

\* find_ids with a visitor that visits every identified subschema: the
\* <<id, subschema>> pairs in the order of the visits, and ok = FALSE when a
\* join failed (the pairs are those visited before the failure).
RECURSIVE find_ids(_, _, _)
RECURSIVE find_ids_each(_, _, _, _)
find_ids_rest(first, rest) == [ok |-> rest.ok, ids |-> first.ids \o rest.ids]
find_ids_next(draft, values, base_url, i, first) == IF ~first.ok THEN first ELSE find_ids_rest(first, find_ids_each(draft, values, base_url, i + 1))
find_ids_each(draft, values, base_url, i) ==
  IF i > Len(values) THEN [ok |-> TRUE, ids |-> <<>>]
  ELSE find_ids_next(draft, values, base_url, i, find_ids(draft, values[i], base_url))

ObjectValues(schema) == [i \in 1..Len(schema.kv) |-> schema.kv[i][2]]
find_ids_visit(schema, new_url, below) == [ok |-> below.ok, ids |-> << <<to_string(new_url), schema>> >> \o below.ids]
find_ids_under(draft, schema, new_url) ==
  IF ~new_url.ok THEN [ok |-> FALSE, ids |-> <<>>]
  ELSE find_ids_visit(schema, new_url.u, find_ids_each(draft, ObjectValues(schema), new_url.u, 1))
find_ids_object(draft, schema, base_url, url) ==
  IF IsSome(url) THEN find_ids_under(draft, schema, UrlJoin(base_url, url.s))
  ELSE find_ids_each(draft, ObjectValues(schema), base_url, 1)
find_ids(draft, schema, base_url) ==
  IF IsObject(schema) THEN find_ids_object(draft, schema, base_url, id_of(draft, schema))
  ELSE IF IsArray(schema) THEN find_ids_each(draft, schema.a, base_url, 1)
  ELSE [ok |-> TRUE, ids |-> <<>>]

\* HashMap::get on the id_mapping built by inserting the pairs in order: the
\* last pair inserted under a key is the one kept.
id_mapping_get(id_mapping, url_str) ==
  IF \E i \in 1..Len(id_mapping) : id_mapping[i][1] = url_str
  THEN id_mapping[CHOOSE i \in 1..Len(id_mapping) : id_mapping[i][1] = url_str /\ \A j \in (i + 1)..Len(id_mapping) : id_mapping[j][1] # url_str][2]
  ELSE None

Resolver_mapping(base_url, found) == IF ~found.ok THEN [ok |-> FALSE, base_url |-> base_url, id_mapping |-> <<>>] ELSE [ok |-> TRUE, base_url |-> base_url, id_mapping |-> found.ids]
Resolver_parsed(draft, schema, base_url, parsed) == IF ~parsed.ok THEN [ok |-> FALSE, base_url |-> base_url, id_mapping |-> <<>>] ELSE Resolver_mapping(base_url, find_ids(draft, schema, parsed.u))
Resolver_at(draft, schema, base_url) == Resolver_parsed(draft, schema, base_url, UrlParse(base_url))
Resolver_base(id) == IF IsSome(id) THEN id.s ELSE DOCUMENT_PROTOCOL
Resolver_from_schema(draft, schema) == Resolver_at(draft, schema, Resolver_base(id_of(draft, schema)))

\* The ids of the frames of a scope chain, outermost first.
FrameId(id) == IF IsSome(id) THEN <<id.s>> ELSE <<>>
RECURSIVE ScopeIds(_, _)
ScopeIds(draft, ctx) == IF ctx = <<>> THEN <<>> ELSE FrameId(id_of(draft, ctx[1])) \o ScopeIds(draft, Tail(ctx))

RECURSIVE JoinAll(_, _)
JoinNext(j, urls) == IF ~j.ok THEN j ELSE JoinAll(j.u, Tail(urls))
JoinAll(base, urls) == IF urls = <<>> THEN [ok |-> TRUE, u |-> base] ELSE JoinNext(UrlJoin(base, urls[1]), urls)

JoinFrom(base_url, urls) == IF ~base_url.ok THEN base_url ELSE JoinAll(base_url.u, urls)
join_url(resolver, draft, url_ref, ctx) == JoinFrom(UrlParse(resolver.base_url), ScopeIds(draft, ctx) \o <<url_ref>>)

\* The embedded meta-schema documents (draft4.json, draft6.json, draft7.json)
get_schema(draft) == Obj(<< <<"$schema", Str("http://json-schema.org/draft-0" \o (CASE draft = "Draft4" -> "4" [] draft = "Draft6" -> "6" [] draft = "Draft7" -> "7") \o "/schema#")>> >>)

resolve_mapped(doc) == IF IsSome(doc) THEN [ok |-> TRUE, doc |-> doc] ELSE [ok |-> FALSE, doc |-> None]
\* resolve_url asking the id index before the meta-schema table
resolve_url_str_index_first(resolver, url_str, instance) ==
  IF url_str = DOCUMENT_PROTOCOL THEN [ok |-> TRUE, doc |-> instance]
  ELSE IF IsSome(id_mapping_get(resolver.id_mapping, url_str)) THEN [ok |-> TRUE, doc |-> id_mapping_get(resolver.id_mapping, url_str)]
  ELSE IF draft_from_url(url_str) # "None" THEN [ok |-> TRUE, doc |-> get_schema(draft_from_url(url_str))]
  ELSE [ok |-> FALSE, doc |-> None]

resolve_url_str(resolver, url_str, instance) ==
  IF url_str = DOCUMENT_PROTOCOL THEN [ok |-> TRUE, doc |-> instance]
  ELSE IF draft_from_url(url_str) # "None" THEN [ok |-> TRUE, doc |-> get_schema(draft_from_url(url_str))]
  ELSE resolve_mapped(id_mapping_get(resolver.id_mapping, url_str))
resolve_url(resolver, url, instance) == resolve_url_str(resolver, to_string(url), instance)

\* The first subschema whose id, joined from document:///, is the url.
FirstWithId(ids, url_str) ==
  IF \E i \in 1..Len(ids) : ids[i][1] = url_str
  THEN ids[CHOOSE i \in 1..Len(ids) : ids[i][1] = url_str /\ \A j \in 1..(i - 1) : ids[j][1] # url_str][2]
  ELSE None

\* resolve_fragment after the join: first the subschema with the url as its
\* id, then the document of the resource and the pointer into it.
resolve_pointed(resource, resolved) ==
  IF IsSome(resolved) THEN [ok |-> TRUE, msg |-> "", scope |-> resource, resolved |-> resolved]
  ELSE [ok |-> FALSE, msg |-> "Couldn't resolve JSON pointer", scope |-> resource, resolved |-> None]
resolve_document(resource, fragment, document) ==
  IF ~document.ok THEN [ok |-> FALSE, msg |-> "Can't resolve url", scope |-> resource, resolved |-> None]
  ELSE resolve_pointed(resource, pointer(document.doc, fragment))
resolve_by_id(resolver, instance, resource, fragment, found_ok, byId) ==
  IF IsSome(byId) THEN [ok |-> TRUE, msg |-> "", scope |-> resource, resolved |-> byId]
  ELSE IF ~found_ok THEN [ok |-> FALSE, msg |-> "Invalid URL", scope |-> resource, resolved |-> None]
  ELSE resolve_document(resource, fragment, resolve_url(resolver, resource, instance))
resolve_found(resolver, instance, url, found) == IF ~decode_utf8_ok(IF url.hasFrag THEN url.frag ELSE "") THEN [ok |-> FALSE, msg |-> "panic", scope |-> set_fragment_none(url), resolved |-> None] ELSE resolve_by_id(resolver, instance, set_fragment_none(url), percent_decode(IF url.hasFrag THEN url.frag ELSE ""), found.ok, FirstWithId(found.ids, to_string(url)))
resolve_joined(resolver, draft, instance, url) ==
  IF ~url.ok THEN [ok |-> FALSE, msg |-> "Invalid URL", scope |-> set_fragment_none(url.u), resolved |-> None]
  ELSE resolve_found(resolver, instance, url.u, find_ids(draft, instance, UrlParse(DOCUMENT_PROTOCOL).u))
resolve_fragment(resolver, draft, url_ref, ctx, instance) == resolve_joined(resolver, draft, instance, join_url(resolver, draft, url_ref, ctx))

\* ------------------------------------------------------------------ config.rs

\* Config::from_schema: draftArg is the Option<Draft> ("None" when absent).
Config_new(schema, resolver, draft) == [ok |-> resolver.ok, schema |-> schema, resolver |-> resolver, draft |-> draft]
Config_with_draft(schema, draft) == Config_new(schema, Resolver_from_schema(draft, schema), draft)
unwrap_or(opt, default) == IF opt # "None" THEN opt ELSE default
Config_from_schema(schema, draftArg) == Config_with_draft(schema, IF draftArg # "None" THEN draftArg ELSE unwrap_or(draft_from_schema(schema), "Draft7"))

\* ------------------------------------------------------------------ contexts, errors
\* A Context is the sequence of its frames, outermost first; push adds the
\* innermost frame.  The instance and schema contexts hold path steps (an
\* array index is written as its decimal string), the scope chain holds the
\* schemas whose ids anchor a reference.

push(ctx, x) == Append(ctx, x)

IndexStr(i) == CASE i = 0 -> "0" [] i = 1 -> "1" [] i = 2 -> "2" [] i = 3 -> "3" [] OTHER -> "n"

RECURSIVE Reverse(_)
Reverse(seq) == IF seq = <<>> THEN <<>> ELSE Append(Reverse(Tail(seq)), Head(seq))

\* ValidationError: the paths are stored innermost step first.
\* msg is the fixed text of the message and detail the names it lists.
new_with_context(msg, instance_ctx, schema_ctx) == [msg |-> msg, detail |-> <<>>, instance_path |-> Reverse(instance_ctx), schema_path |-> Reverse(schema_ctx)]
new_with_schema_context(msg, schema_ctx) == [msg |-> msg, detail |-> <<>>, instance_path |-> <<>>, schema_path |-> Reverse(schema_ctx)]
ValidationError_new(msg) == [msg |-> msg, detail |-> <<>>, instance_path |-> <<>>, schema_path |-> <<>>]

\* path_to_string: the stored path rendered root first
path_to_string(path) == IF path = <<>> THEN "/" ELSE "/" \o PathString(Reverse(path))

\* An ErrorRecorder and the run it records: errs are the errors recorded,
\* stop says that record_error returned None (the callers return None in
\* turn), abort says that the thread died ("overflow": the stack is
\* exhausted, "panic": an unwrap of None or a division by zero).
ValidationErrors_new == [kind |-> "collect", errs |-> <<>>, stop |-> FALSE, abort |-> "none"]
FastFailErrorRecorder_new == [kind |-> "fastfail", errs |-> <<>>, stop |-> FALSE, abort |-> "none"]

record_error(errors, e) == [errors EXCEPT !.errs = Append(@, e), !.stop = (errors.kind = "fastfail")]
has_errors(errors) == errors.errs # <<>>

Halted(errors) == errors.stop \/ errors.abort # "none"
Panic(errors) == [errors EXCEPT !.abort = "panic"]
\* The caller's recorder after a child run on a recorder of its own: only
\* the death of the thread reaches the caller.
AfterChild(errors, child) == IF child.abort # "none" THEN [errors EXCEPT !.abort = child.abort] ELSE errors

\* ------------------------------------------------------------------ regex crate
\* Regex::new(pattern).is_ok() and Regex::is_match over the patterns and the
\* strings of the model.
RegexOk(pattern) == pattern # "("
is_match(pattern, text) ==
  CASE pattern = "^a" -> text \in {"a", "ab", "a1"}
    [] pattern = "b" -> text \in {"b", "ab", "bar", "baz"}
    [] pattern = "" -> TRUE
    [] OTHER -> FALSE

\* ------------------------------------------------------------------ format.rs
get_format_checker(draft, key) ==
  CASE key \in {"date-time", "email", "hostname", "ipv4", "ipv6", "regex", "uri"} -> key
    [] key \in {"date", "json-pointer", "time", "uri-reference", "uri-template"} /\ draft # "Draft4" -> key
    [] key \in {"idn-email", "iri", "iri-reference"} /\ draft = "Draft7" -> key
    [] OTHER -> "None"

checker(key, value) ==
  CASE key \in {"email", "idn-email"} -> value \in {"a@b"}
    [] key = "ipv4" -> value \in {"127.0.0.1"}
    [] key = "regex" -> RegexOk(value)
    [] key \in {"uri-reference", "uri-template"} -> TRUE
    [] OTHER -> FALSE

\* ------------------------------------------------------------------ unique.rs
\* ValueWrapper::hash: the values fed to the hasher, in order.
RECURSIVE hash(_)
RECURSIVE hash_each(_, _)
hash_each(items, i) == IF i > Len(items) THEN <<>> ELSE hash(items[i]) \o hash_each(items, i + 1)
hash(x) ==
  CASE IsArray(x) -> <<"0">> \o hash_each(x.a, 1)
    [] IsObject(x) -> <<"1">> \o hash_each([i \in 1..(2 * Len(x.kv)) |-> IF i % 2 = 1 THEN Str(x.kv[(i + 1) \div 2][1]) ELSE x.kv[i \div 2][2]], 1)
    [] IsString(x) -> <<"2", x.s>>
    [] IsNumber(x) -> (IF is_f64(x) THEN <<"3", "f64 bits of half " \o ToString(x.h)>> ELSE IF is_u64(x) THEN <<"4", ToString(x.h \div 2)>> ELSE <<"5", ToString(x.h \div 2)>>)
    [] IsBool(x) -> <<"6", ToString(x.b)>>
    [] IsNull(x) -> <<"0">>

\* ValueWrapper::eq
ValueWrapper_eq(x, y) == ValueEq(x, y)

\* HashSet::insert: FALSE when the set holds an element with the same hash
\* that is equal to x.
RECURSIVE has_unique_elements_from(_, _)
has_unique_elements_from(items, i) ==
  IF i > Len(items) THEN TRUE
  ELSE IF \E j \in 1..(i - 1) : hash(items[j]) = hash(items[i]) /\ ValueWrapper_eq(items[j], items[i]) THEN FALSE
  ELSE has_unique_elements_from(items, i + 1)

has_unique_elements(items) == has_unique_elements_from(items, 1)

\* ------------------------------------------------------------------ validators.rs
\* Every validator takes the arguments of the Rust function, the recorder as
\* a value, and the depth of the descend frame it runs under; it returns the
\* recorder after the call.  A call that returned None is a recorder with
\* stop (or abort) set, and the `?` after a call returns that recorder.

MaxDepth == 6

RECURSIVE descend(_, _, _, _, _, _, _, _)
RECURSIVE validator_call(_, _, _, _, _, _, _, _, _, _)

RECURSIVE patternProperties_keys(_, _, _, _, _, _, _, _, _, _)
patternProperties_keys(cfg, instance, pattern, subschema, k, instance_ctx, schema_ctx, ref_ctx, errors, depth) ==
  IF k > Len(instance) THEN errors
  ELSE LET after == IF is_match(pattern, instance[k][1])
                    THEN descend(cfg, instance[k][2], subschema, push(instance_ctx, instance[k][1]), push(schema_ctx, pattern), ref_ctx, errors, depth + 1)
                    ELSE errors
       IN IF Halted(after) THEN after ELSE patternProperties_keys(cfg, instance, pattern, subschema, k + 1, instance_ctx, schema_ctx, ref_ctx, after, depth)

RECURSIVE patternProperties_from(_, _, _, _, _, _, _, _, _)
patternProperties_from(cfg, instance, schema, i, instance_ctx, schema_ctx, ref_ctx, errors, depth) ==
  IF i > Len(schema) THEN errors
  ELSE LET after == IF RegexOk(schema[i][1])
                    THEN patternProperties_keys(cfg, instance, schema[i][1], schema[i][2], 1, instance_ctx, schema_ctx, ref_ctx, errors, depth)
                    ELSE record_error(errors, new_with_schema_context("Invalid regular expression", schema_ctx))
       IN IF Halted(after) THEN after ELSE patternProperties_from(cfg, instance, schema, i + 1, instance_ctx, schema_ctx, ref_ctx, after, depth)

patternProperties(cfg, instance, schema, parent_schema, instance_ctx, schema_ctx, ref_ctx, errors, depth) ==
  IF IsObject(instance) /\ IsObject(schema)
  THEN patternProperties_from(cfg, instance.kv, schema.kv, 1, instance_ctx, schema_ctx, ref_ctx, errors, depth)
  ELSE errors

RECURSIVE propertyNames_from(_, _, _, _, _, _, _, _, _)
propertyNames_from(cfg, instance, schema, k, instance_ctx, schema_ctx, ref_ctx, errors, depth) ==
  IF k > Len(instance) THEN errors
  ELSE LET after == descend(cfg, Str(instance[k][1]), schema, push(instance_ctx, instance[k][1]), schema_ctx, ref_ctx, errors, depth + 1)
       IN IF Halted(after) THEN after ELSE propertyNames_from(cfg, instance, schema, k + 1, instance_ctx, schema_ctx, ref_ctx, after, depth)

propertyNames(cfg, instance, schema, parent_schema, instance_ctx, schema_ctx, ref_ctx, errors, depth) ==
  IF IsObject(instance)
  THEN propertyNames_from(cfg, instance.kv, schema, 1, instance_ctx, schema_ctx, ref_ctx, errors, depth)
  ELSE errors

\* find_additional_properties looking at the sibling `properties` alone
find_additional_properties_no_patterns(instance, schema) ==
  LET properties == IF contains_key(schema, "properties") /\ IsObject(get(schema, "properties")) THEN get(schema, "properties") ELSE None
      IsExtra(property) == ~(IsSome(properties) /\ contains_key(properties.kv, property))
  IN SelectSeq(keys(instance), IsExtra)

\* The keys of the instance that are extras, in the order of the instance.
find_additional_properties(instance, schema) ==
  LET properties == IF contains_key(schema, "properties") /\ IsObject(get(schema, "properties")) THEN get(schema, "properties") ELSE None
      patterns == IF contains_key(schema, "patternProperties") /\ IsObject(get(schema, "patternProperties")) THEN get(schema, "patternProperties") ELSE None
      pattern_regexes == IF IsSome(patterns) THEN SelectSeq(keys(patterns.kv), RegexOk) ELSE <<>>
      IsExtra(property) == /\ ~(IsSome(properties) /\ contains_key(properties.kv, property))
                           /\ ~(\E y \in 1..Len(pattern_regexes) : is_match(pattern_regexes[y], property))
  IN SelectSeq(keys(instance), IsExtra)

RECURSIVE additionalProperties_from(_, _, _, _, _, _, _, _, _, _)
additionalProperties_from(cfg, instance, schema, extras, k, instance_ctx, schema_ctx, ref_ctx, errors, depth) ==
  IF k > Len(extras) THEN errors
  ELSE LET after == descend(cfg, get(instance, extras[k]), schema, push(instance_ctx, extras[k]), schema_ctx, ref_ctx, errors, depth + 1)
       IN IF Halted(after) THEN after ELSE additionalProperties_from(cfg, instance, schema, extras, k + 1, instance_ctx, schema_ctx, ref_ctx, after, depth)

additionalProperties(cfg, instance, schema, parent_schema, instance_ctx, schema_ctx, ref_ctx, errors, depth) ==
  IF IsObject(instance)
  THEN LET extras == find_additional_properties(instance.kv, parent_schema)
       IN IF IsObject(schema) THEN additionalProperties_from(cfg, instance.kv, schema, extras, 1, instance_ctx, schema_ctx, ref_ctx, errors, depth)
          ELSE IF IsBool(schema) THEN (IF ~schema.b /\ extras # <<>>
                                       THEN record_error(errors, [new_with_context("Additional properties are not allowed. Found", instance_ctx, schema_ctx) EXCEPT !.detail = extras])
                                       ELSE errors)
          ELSE errors
  ELSE errors

RECURSIVE items_each(_, _, _, _, _, _, _, _, _)
\* the loop of items going on after the recorder has stopped
items_each_no_stop(cfg, instance, schema, index, instance_ctx, schema_ctx, ref_ctx, errors, depth) ==
  IF index >= Len(instance) THEN errors
  ELSE items_each(cfg, instance, schema, index + 1, instance_ctx, schema_ctx, ref_ctx, descend(cfg, instance[index + 1], schema, push(instance_ctx, IndexStr(index)), schema_ctx, ref_ctx, errors, depth + 1), depth)

\* for (index, item) in instance.iter().enumerate(): descend(item, schema, ..)
items_each(cfg, instance, schema, index, instance_ctx, schema_ctx, ref_ctx, errors, depth) ==
  IF index >= Len(instance) THEN errors
  ELSE LET after == descend(cfg, instance[index + 1], schema, push(instance_ctx, IndexStr(index)), schema_ctx, ref_ctx, errors, depth + 1)
       IN IF Halted(after) THEN after ELSE items_each(cfg, instance, schema, index + 1, instance_ctx, schema_ctx, ref_ctx, after, depth)

\* for ((index, item), subschema) in instance.iter().enumerate().zip(items.iter())
RECURSIVE items_zip(_, _, _, _, _, _, _, _, _)
items_zip(cfg, instance, items_, index, instance_ctx, schema_ctx, ref_ctx, errors, depth) ==
  IF index >= Len(instance) \/ index >= Len(items_) THEN errors
  ELSE LET after == descend(cfg, instance[index + 1], items_[index + 1], push(instance_ctx, IndexStr(index)), push(schema_ctx, IndexStr(index)), ref_ctx, errors, depth + 1)
       IN IF Halted(after) THEN after ELSE items_zip(cfg, instance, items_, index + 1, instance_ctx, schema_ctx, ref_ctx, after, depth)

items_draft4(cfg, instance, schema, parent_schema, instance_ctx, schema_ctx, ref_ctx, errors, depth) ==
  IF IsArray(instance)
  THEN IF IsObject(schema) THEN items_each(cfg, instance.a, schema, 0, instance_ctx, schema_ctx, ref_ctx, errors, depth)
       ELSE IF IsArray(schema) THEN items_zip(cfg, instance.a, schema.a, 0, instance_ctx, schema_ctx, ref_ctx, errors, depth)
       ELSE errors
  ELSE errors

items(cfg, instance, schema, parent_schema, instance_ctx, schema_ctx, ref_ctx, errors, depth) ==
  IF IsArray(instance)
  THEN LET items_ == bool_to_object_schema(schema)
       IN IF IsObject(items_) THEN items_each(cfg, instance.a, items_, 0, instance_ctx, schema_ctx, ref_ctx, errors, depth)
          ELSE IF IsArray(items_) THEN items_zip(cfg, instance.a, items_.a, 0, instance_ctx, schema_ctx, ref_ctx, errors, depth)
          ELSE errors
  ELSE errors

additionalItems(cfg, instance, schema, parent_schema, instance_ctx, schema_ctx, ref_ctx, errors, depth) ==
  IF ~contains_key(parent_schema, "items") THEN errors
  ELSE IF IsObject(get(parent_schema, "items")) THEN errors
  ELSE IF IsArray(instance)
  THEN LET len_items == IF IsArray(get(parent_schema, "items")) THEN Len(get(parent_schema, "items").a) ELSE 0
       IN IF IsObject(schema) THEN items_each(cfg, instance.a, schema, len_items, instance_ctx, schema_ctx, ref_ctx, errors, depth)
          ELSE IF IsBool(schema) THEN (IF ~schema.b /\ Len(instance.a) > len_items
                                       THEN record_error(errors, new_with_context("Additional items are not allowed", instance_ctx, schema_ctx))
                                       ELSE errors)
          ELSE errors
  ELSE errors

const_(cfg, instance, schema, parent_schema, instance_ctx, schema_ctx, ref_ctx, errors, depth) ==
  IF ~ValueEq(instance, schema)
  THEN record_error(errors, new_with_context("const doesn't match", instance_ctx, schema_ctx))
  ELSE errors

RECURSIVE contains_from(_, _, _, _, _, _, _, _, _)
contains_from(cfg, instance, schema, i, instance_ctx, schema_ctx, ref_ctx, errors, depth) ==
  IF i >= Len(instance) THEN record_error(errors, new_with_context("No items in array valid under the given schema", instance_ctx, schema_ctx))
  ELSE LET child == descend(cfg, instance[i + 1], schema, push(instance_ctx, IndexStr(i)), schema_ctx, ref_ctx, FastFailErrorRecorder_new, depth + 1)
       IN IF child.abort # "none" THEN AfterChild(errors, child)
          ELSE IF ~child.stop THEN errors
          ELSE contains_from(cfg, instance, schema, i + 1, instance_ctx, schema_ctx, ref_ctx, errors, depth)

contains(cfg, instance, schema, parent_schema, instance_ctx, schema_ctx, ref_ctx, errors, depth) ==
  IF IsArray(instance)
  THEN contains_from(cfg, instance.a, schema, 0, instance_ctx, schema_ctx, ref_ctx, errors, depth)
  ELSE errors

exclusiveMinimum(cfg, instance, schema, parent_schema, instance_ctx, schema_ctx, ref_ctx, errors, depth) ==
  IF IsNumber(instance) /\ IsNumber(schema) /\ as_f64(instance) <= as_f64(schema)
  THEN record_error(errors, new_with_context("<= exclusiveMinimum", instance_ctx, schema_ctx))
  ELSE errors

exclusiveMaximum(cfg, instance, schema, parent_schema, instance_ctx, schema_ctx, ref_ctx, errors, depth) ==
  IF IsNumber(instance) /\ IsNumber(schema) /\ as_f64(instance) >= as_f64(schema)
  THEN record_error(errors, new_with_context(">= exclusiveMaximum", instance_ctx, schema_ctx))
  ELSE errors

\* parent_schema.get(key).and_then(|x| x.as_bool()).unwrap_or_else(|| false)
sibling_bool(parent_schema, key) == contains_key(parent_schema, key) /\ IsBool(get(parent_schema, key)) /\ get(parent_schema, key).b

\* a Draft 4 minimum that does not look at its sibling
minimum_draft4_ignoring_sibling(cfg, instance, schema, parent_schema, instance_ctx, schema_ctx, ref_ctx, errors, depth) ==
  IF IsNumber(instance) /\ IsNumber(schema) /\ as_f64(instance) < as_f64(schema)
  THEN record_error(errors, new_with_context("<= minimum", instance_ctx, schema_ctx))
  ELSE errors

minimum_draft4(cfg, instance, schema, parent_schema, instance_ctx, schema_ctx, ref_ctx, errors, depth) ==
  IF IsNumber(instance) /\ IsNumber(schema)
  THEN IF sibling_bool(parent_schema, "exclusiveMinimum")
       THEN (IF as_f64(instance) <= as_f64(schema) THEN record_error(errors, new_with_context("<= exclusiveMinimum", instance_ctx, schema_ctx)) ELSE errors)
       ELSE IF as_f64(instance) < as_f64(schema) THEN record_error(errors, new_with_context("<= minimum", instance_ctx, schema_ctx))
       ELSE errors
  ELSE errors

minimum(cfg, instance, schema, parent_schema, instance_ctx, schema_ctx, ref_ctx, errors, depth) ==
  IF IsNumber(instance) /\ IsNumber(schema) /\ as_f64(instance) < as_f64(schema)
  THEN record_error(errors, new_with_context("< minimum", instance_ctx, schema_ctx))
  ELSE errors

maximum_draft4(cfg, instance, schema, parent_schema, instance_ctx, schema_ctx, ref_ctx, errors, depth) ==
  IF IsNumber(instance) /\ IsNumber(schema)
  THEN IF sibling_bool(parent_schema, "exclusiveMaximum")
       THEN (IF as_f64(instance) >= as_f64(schema) THEN record_error(errors, new_with_context(">= exclusiveMaximum", instance_ctx, schema_ctx)) ELSE errors)
       ELSE IF as_f64(instance) > as_f64(schema) THEN record_error(errors, new_with_context("> maximum", instance_ctx, schema_ctx))
       ELSE errors
  ELSE errors

maximum(cfg, instance, schema, parent_schema, instance_ctx, schema_ctx, ref_ctx, errors, depth) ==
  IF IsNumber(instance) /\ IsNumber(schema) /\ as_f64(instance) > as_f64(schema)
  THEN record_error(errors, new_with_context("> maximum", instance_ctx, schema_ctx))
  ELSE errors

Abs(n) == IF n < 0 THEN -n ELSE n

\* multipleOf: "panic" when an unwrap of as_u64 / as_i64 meets None or the
\* integer divisor is zero; otherwise whether the check failed.  A float
\* quotient by zero is infinite (trunc-equal-self) or, for 0.0 / 0.0, NaN.
multipleOf_failed(instance, schema) ==
  IF is_f64(schema)
  THEN (IF schema.h = 0 THEN (IF instance.h = 0 THEN "failed" ELSE "passed") ELSE IF Abs(instance.h) % Abs(schema.h) # 0 THEN "failed" ELSE "passed")
  ELSE IF is_u64(schema)
  THEN (IF ~is_u64(instance) \/ schema.h = 0 THEN "panic" ELSE IF (instance.h \div 2) % (schema.h \div 2) # 0 THEN "failed" ELSE "passed")
  ELSE (IF ~is_i64(instance) THEN "panic" ELSE IF Abs(instance.h \div 2) % Abs(schema.h \div 2) # 0 THEN "failed" ELSE "passed")

multipleOf(cfg, instance, schema, parent_schema, instance_ctx, schema_ctx, ref_ctx, errors, depth) ==
  IF IsNumber(instance) /\ IsNumber(schema)
  THEN LET failed == multipleOf_failed(instance, schema)
       IN IF failed = "panic" THEN Panic(errors)
          ELSE IF failed = "failed" THEN record_error(errors, new_with_context("not multipleOf", instance_ctx, schema_ctx))
          ELSE errors
  ELSE errors

\* schema.as_u64().unwrap() as usize: -1 stands for the panic of the unwrap.
as_u64_unwrap(schema) == IF is_u64(schema) THEN schema.h \div 2 ELSE -1

minItems(cfg, instance, schema, parent_schema, instance_ctx, schema_ctx, ref_ctx, errors, depth) ==
  IF IsArray(instance) /\ IsNumber(schema)
  THEN IF as_u64_unwrap(schema) < 0 THEN Panic(errors)
       ELSE IF Len(instance.a) < as_u64_unwrap(schema) THEN record_error(errors, new_with_context("< minItems", instance_ctx, schema_ctx))
       ELSE errors
  ELSE errors

maxItems(cfg, instance, schema, parent_schema, instance_ctx, schema_ctx, ref_ctx, errors, depth) ==
  IF IsArray(instance) /\ IsNumber(schema)
  THEN IF as_u64_unwrap(schema) < 0 THEN Panic(errors)
       ELSE IF Len(instance.a) > as_u64_unwrap(schema) THEN record_error(errors, new_with_context("> maxItems", instance_ctx, schema_ctx))
       ELSE errors
  ELSE errors

uniqueItems(cfg, instance, schema, parent_schema, instance_ctx, schema_ctx, ref_ctx, errors, depth) ==
  IF IsArray(instance) /\ IsBool(schema) /\ schema.b /\ ~has_unique_elements(instance.a)
  THEN record_error(errors, new_with_context("items are not unique", instance_ctx, schema_ctx))
  ELSE errors

pattern(cfg, instance, schema, parent_schema, instance_ctx, schema_ctx, ref_ctx, errors, depth) ==
  IF IsString(instance) /\ IsString(schema)
  THEN IF RegexOk(schema.s)
       THEN (IF ~is_match(schema.s, instance.s) THEN record_error(errors, new_with_context("does not match pattern", instance_ctx, schema_ctx)) ELSE errors)
       ELSE record_error(errors, new_with_schema_context("Invalid regular expression", schema_ctx))
  ELSE errors

format(cfg, instance, schema, parent_schema, instance_ctx, schema_ctx, ref_ctx, errors, depth) ==
  IF IsString(instance) /\ IsString(schema) /\ get_format_checker(cfg.draft, schema.s) # "None" /\ ~checker(get_format_checker(cfg.draft, schema.s), instance.s)
  THEN record_error(errors, new_with_context("invalid for format", instance_ctx, schema_ctx))
  ELSE errors

\* instance.chars().count() of the strings of the model
chars_count(text) == CASE text = "" -> 0 [] text \in {"a", "b", "1"} -> 1 [] text \in {"ab", "a1", "hi"} -> 2 [] OTHER -> 3

minLength(cfg, instance, schema, parent_schema, instance_ctx, schema_ctx, ref_ctx, errors, depth) ==
  IF IsString(instance) /\ IsNumber(schema)
  THEN IF as_u64_unwrap(schema) < 0 THEN Panic(errors)
       ELSE IF chars_count(instance.s) < as_u64_unwrap(schema) THEN record_error(errors, new_with_context("< minLength", instance_ctx, schema_ctx))
       ELSE errors
  ELSE errors

maxLength(cfg, instance, schema, parent_schema, instance_ctx, schema_ctx, ref_ctx, errors, depth) ==
  IF IsString(instance) /\ IsNumber(schema)
  THEN IF as_u64_unwrap(schema) < 0 THEN Panic(errors)
       ELSE IF chars_count(instance.s) > as_u64_unwrap(schema) THEN record_error(errors, new_with_context("< maxLength", instance_ctx, schema_ctx))
       ELSE errors
  ELSE errors

RECURSIVE dependencies_keys(_, _, _, _, _, _)
dependencies_keys(object, deps, j, instance_ctx, schema_ctx, errors) ==
  IF j > Len(deps) THEN errors
  ELSE LET after == IF IsString(deps[j]) /\ ~contains_key(object, deps[j].s)
                    THEN record_error(errors, new_with_context("dependency", instance_ctx, schema_ctx))
                    ELSE errors
       IN IF Halted(after) THEN after ELSE dependencies_keys(object, deps, j + 1, instance_ctx, schema_ctx, after)

RECURSIVE dependencies_from(_, _, _, _, _, _, _, _, _)
dependencies_from(cfg, instance, schema, i, instance_ctx, schema_ctx, ref_ctx, errors, depth) ==
  IF i > Len(schema) THEN errors
  ELSE LET property == schema[i][1]
           dep == bool_to_object_schema(schema[i][2])
           after == IF ~contains_key(instance.kv, property) THEN errors
                    ELSE IF IsObject(dep) THEN descend(cfg, instance, dep, instance_ctx, push(schema_ctx, property), ref_ctx, errors, depth + 1)
                    ELSE dependencies_keys(instance.kv, iter_or_once(dep), 1, instance_ctx, schema_ctx, errors)
       IN IF Halted(after) THEN after ELSE dependencies_from(cfg, instance, schema, i + 1, instance_ctx, schema_ctx, ref_ctx, after, depth)

dependencies(cfg, instance, schema, parent_schema, instance_ctx, schema_ctx, ref_ctx, errors, depth) ==
  IF IsObject(instance) /\ IsObject(schema)
  THEN dependencies_from(cfg, instance, schema.kv, 1, instance_ctx, schema_ctx, ref_ctx, errors, depth)
  ELSE errors

enum_(cfg, instance, schema, parent_schema, instance_ctx, schema_ctx, ref_ctx, errors, depth) ==
  IF IsArray(schema) /\ ~(\E i \in 1..Len(schema.a) : ValueEq(schema.a[i], instance))
  THEN record_error(errors, new_with_context("is not one of enum", instance_ctx, schema_ctx))
  ELSE errors

\* single_type taking "integer" by the encoding of the number alone
single_type_by_encoding(instance, schema) ==
  IF IsString(schema)
  THEN CASE schema.s = "array" -> IsArray(instance)
         [] schema.s = "object" -> IsObject(instance)
         [] schema.s = "null" -> IsNull(instance)
         [] schema.s = "number" -> IsNumber(instance)
         [] schema.s = "string" -> IsString(instance)
         [] schema.s = "integer" -> IsNumber(instance) /\ (is_i64(instance) \/ is_u64(instance))
         [] schema.s = "boolean" -> IsBool(instance)
         [] OTHER -> TRUE
  ELSE TRUE

single_type(instance, schema) ==
  IF IsString(schema)
  THEN CASE schema.s = "array" -> IsArray(instance)
         [] schema.s = "object" -> IsObject(instance)
         [] schema.s = "null" -> IsNull(instance)
         [] schema.s = "number" -> IsNumber(instance)
         [] schema.s = "string" -> IsString(instance)
         [] schema.s = "integer" -> IsNumber(instance) /\ (is_i64(instance) \/ is_u64(instance) \/ (is_f64(instance) /\ instance.h % 2 = 0))
         [] schema.s = "boolean" -> IsBool(instance)
         [] OTHER -> TRUE
  ELSE TRUE

type_(cfg, instance, schema, parent_schema, instance_ctx, schema_ctx, ref_ctx, errors, depth) ==
  IF ~(\E i \in 1..Len(iter_or_once(schema)) : single_type(instance, iter_or_once(schema)[i]))
  THEN record_error(errors, new_with_context("is not of type", instance_ctx, schema_ctx))
  ELSE errors

RECURSIVE properties_from(_, _, _, _, _, _, _, _, _)
properties_from(cfg, instance, schema, i, instance_ctx, schema_ctx, ref_ctx, errors, depth) ==
  IF i > Len(schema) THEN errors
  ELSE LET property == schema[i][1]
           after == IF contains_key(instance, property)
                    THEN descend(cfg, get(instance, property), schema[i][2], push(instance_ctx, property), push(schema_ctx, property), ref_ctx, errors, depth + 1)
                    ELSE errors
       IN IF Halted(after) THEN after ELSE properties_from(cfg, instance, schema, i + 1, instance_ctx, schema_ctx, ref_ctx, after, depth)

properties(cfg, instance, schema, parent_schema, instance_ctx, schema_ctx, ref_ctx, errors, depth) ==
  IF IsObject(instance) /\ IsObject(schema)
  THEN properties_from(cfg, instance.kv, schema.kv, 1, instance_ctx, schema_ctx, ref_ctx, errors, depth)
  ELSE errors

RECURSIVE required_from(_, _, _, _, _, _)
required_from(instance, schema, i, instance_ctx, schema_ctx, errors) ==
  IF i > Len(schema) THEN errors
  ELSE LET after == IF IsString(schema[i]) /\ ~contains_key(instance, schema[i].s)
                    THEN record_error(errors, [new_with_context("required property is missing", instance_ctx, schema_ctx) EXCEPT !.detail = <<schema[i].s>>])
                    ELSE errors
       IN IF Halted(after) THEN after ELSE required_from(instance, schema, i + 1, instance_ctx, schema_ctx, after)

required(cfg, instance, schema, parent_schema, instance_ctx, schema_ctx, ref_ctx, errors, depth) ==
  IF IsObject(instance) /\ IsArray(schema)
  THEN required_from(instance.kv, schema.a, 1, instance_ctx, schema_ctx, errors)
  ELSE errors

minProperties(cfg, instance, schema, parent_schema, instance_ctx, schema_ctx, ref_ctx, errors, depth) ==
  IF IsObject(instance) /\ IsNumber(schema)
  THEN IF as_u64_unwrap(schema) < 0 THEN Panic(errors)
       ELSE IF Len(instance.kv) < as_u64_unwrap(schema) THEN record_error(errors, new_with_context("< minProperties", instance_ctx, schema_ctx))
       ELSE errors
  ELSE errors

maxProperties(cfg, instance, schema, parent_schema, instance_ctx, schema_ctx, ref_ctx, errors, depth) ==
  IF IsObject(instance) /\ IsNumber(schema)
  THEN IF as_u64_unwrap(schema) < 0 THEN Panic(errors)
       ELSE IF Len(instance.kv) > as_u64_unwrap(schema) THEN record_error(errors, new_with_context("> maxProperties", instance_ctx, schema_ctx))
       ELSE errors
  ELSE errors

\* if cfg.get_draft_number() >= 6 { util::bool_to_object_schema(subschema) } else { subschema }
coerce_draft6(cfg, subschema) == IF get_draft_number(cfg.draft) >= 6 THEN bool_to_object_schema(subschema) ELSE subschema

RECURSIVE allOf_from_rest_first(_, _, _, _, _, _, _, _, _)
\* allOf running the later elements before the element at index
allOf_from_rest_first(cfg, instance, schema, index, instance_ctx, schema_ctx, ref_ctx, errors, depth) ==
  IF index >= Len(schema) THEN errors
  ELSE LET after == allOf_from_rest_first(cfg, instance, schema, index + 1, instance_ctx, schema_ctx, ref_ctx, errors, depth)
       IN IF Halted(after) THEN after ELSE descend(cfg, instance, coerce_draft6(cfg, schema[index + 1]), instance_ctx, push(schema_ctx, IndexStr(index)), ref_ctx, after, depth + 1)

RECURSIVE allOf_from(_, _, _, _, _, _, _, _, _)
allOf_from(cfg, instance, schema, index, instance_ctx, schema_ctx, ref_ctx, errors, depth) ==
  IF index >= Len(schema) THEN errors
  ELSE LET after == descend(cfg, instance, coerce_draft6(cfg, schema[index + 1]), instance_ctx, push(schema_ctx, IndexStr(index)), ref_ctx, errors, depth + 1)
       IN IF Halted(after) THEN after ELSE allOf_from(cfg, instance, schema, index + 1, instance_ctx, schema_ctx, ref_ctx, after, depth)

allOf(cfg, instance, schema, parent_schema, instance_ctx, schema_ctx, ref_ctx, errors, depth) ==
  IF IsArray(schema)
  THEN allOf_from(cfg, instance, schema.a, 0, instance_ctx, schema_ctx, ref_ctx, errors, depth)
  ELSE errors

RECURSIVE anyOf_from(_, _, _, _, _, _, _, _, _)
\* anyOf running its subschemas on the caller's recorder and dropping their
\* errors once a subschema matches
anyOf_from_shared(cfg, instance, schema, index, instance_ctx, schema_ctx, ref_ctx, errors, depth) ==
  IF index >= Len(schema) THEN record_error(errors, new_with_context("anyOf", instance_ctx, schema_ctx))
  ELSE LET after == descend(cfg, instance, coerce_draft6(cfg, schema[index + 1]), instance_ctx, push(schema_ctx, IndexStr(index)), ref_ctx, errors, depth + 1)
       IN IF Halted(after) THEN after
          ELSE IF after.errs = errors.errs THEN errors
          ELSE anyOf_from(cfg, instance, schema, index + 1, instance_ctx, schema_ctx, ref_ctx, errors, depth)

\* The run of one subschema of anyOf on its recorder local_errors, a
\* ValidationErrors::new().
anyOf_local_errors(cfg, instance, subschema, index, instance_ctx, schema_ctx, ref_ctx, depth) ==
  descend(cfg, instance, coerce_draft6(cfg, subschema), instance_ctx, push(schema_ctx, IndexStr(index)), ref_ctx, ValidationErrors_new, depth + 1)

anyOf_from(cfg, instance, schema, index, instance_ctx, schema_ctx, ref_ctx, errors, depth) ==
  IF index >= Len(schema) THEN record_error(errors, new_with_context("anyOf", instance_ctx, schema_ctx))
  ELSE LET local_errors == anyOf_local_errors(cfg, instance, schema[index + 1], index, instance_ctx, schema_ctx, ref_ctx, depth)
       IN IF local_errors.abort # "none" THEN AfterChild(errors, local_errors)
          ELSE IF ~has_errors(local_errors) THEN errors
          ELSE anyOf_from(cfg, instance, schema, index + 1, instance_ctx, schema_ctx, ref_ctx, errors, depth)

\* anyOf asking every subschema to accept and passing their errors on
anyOf_every(cfg, instance, schema, parent_schema, instance_ctx, schema_ctx, ref_ctx, errors, depth) ==
  IF IsArray(schema)
  THEN allOf_from(cfg, instance, schema.a, 0, instance_ctx, schema_ctx, ref_ctx, errors, depth)
  ELSE errors

anyOf(cfg, instance, schema, parent_schema, instance_ctx, schema_ctx, ref_ctx, errors, depth) ==
  IF IsArray(schema)
  THEN anyOf_from(cfg, instance, schema.a, 0, instance_ctx, schema_ctx, ref_ctx, errors, depth)
  ELSE errors

RECURSIVE oneOf_more(_, _, _, _, _, _, _, _, _)
\* the second loop of oneOf looking at the one subschema after the first match
oneOf_more_adjacent(cfg, instance, rest, index, instance_ctx, schema_ctx, ref_ctx, errors, depth) ==
  IF index >= Len(rest) \/ index >= 1 THEN errors
  ELSE LET child == descend(cfg, instance, bool_to_object_schema(rest[index + 1]), instance_ctx, push(schema_ctx, IndexStr(index)), ref_ctx, FastFailErrorRecorder_new, depth + 1)
       IN IF child.abort # "none" THEN AfterChild(errors, child)
          ELSE IF ~child.stop THEN record_error(errors, new_with_context("More than one matched in oneOf", instance_ctx, schema_ctx))
          ELSE oneOf_more(cfg, instance, rest, index + 1, instance_ctx, schema_ctx, ref_ctx, errors, depth)

\* The second loop of oneOf: the subschemas after the first match, numbered
\* from 0 again.
oneOf_more(cfg, instance, rest, index, instance_ctx, schema_ctx, ref_ctx, errors, depth) ==
  IF index >= Len(rest) THEN errors
  ELSE LET child == descend(cfg, instance, bool_to_object_schema(rest[index + 1]), instance_ctx, push(schema_ctx, IndexStr(index)), ref_ctx, FastFailErrorRecorder_new, depth + 1)
       IN IF child.abort # "none" THEN AfterChild(errors, child)
          ELSE IF ~child.stop THEN record_error(errors, new_with_context("More than one matched in oneOf", instance_ctx, schema_ctx))
          ELSE oneOf_more(cfg, instance, rest, index + 1, instance_ctx, schema_ctx, ref_ctx, errors, depth)

\* The first loop of oneOf: up to the first subschema that matches.
RECURSIVE oneOf_first(_, _, _, _, _, _, _, _, _)
oneOf_first(cfg, instance, schema, index, instance_ctx, schema_ctx, ref_ctx, errors, depth) ==
  IF index >= Len(schema) THEN record_error(errors, new_with_context("Nothing matched in oneOf", instance_ctx, schema_ctx))
  ELSE LET child == descend(cfg, instance, coerce_draft6(cfg, schema[index + 1]), instance_ctx, push(schema_ctx, IndexStr(index)), ref_ctx, FastFailErrorRecorder_new, depth + 1)
       IN IF child.abort # "none" THEN AfterChild(errors, child)
          ELSE IF ~child.stop THEN oneOf_more(cfg, instance, SubSeq(schema, index + 2, Len(schema)), 0, instance_ctx, schema_ctx, ref_ctx, errors, depth)
          ELSE oneOf_first(cfg, instance, schema, index + 1, instance_ctx, schema_ctx, ref_ctx, errors, depth)

oneOf(cfg, instance, schema, parent_schema, instance_ctx, schema_ctx, ref_ctx, errors, depth) ==
  IF IsArray(schema)
  THEN oneOf_first(cfg, instance, schema.a, 0, instance_ctx, schema_ctx, ref_ctx, errors, depth)
  ELSE errors

\* not recording its error when the subschema rejects the instance
not_same_polarity(cfg, instance, schema, parent_schema, instance_ctx, schema_ctx, ref_ctx, errors, depth) ==
  LET child == descend(cfg, instance, schema, instance_ctx, schema_ctx, ref_ctx, FastFailErrorRecorder_new, depth + 1)
  IN IF child.abort # "none" THEN AfterChild(errors, child)
     ELSE IF child.stop THEN record_error(errors, new_with_context("not", instance_ctx, schema_ctx))
     ELSE errors

not(cfg, instance, schema, parent_schema, instance_ctx, schema_ctx, ref_ctx, errors, depth) ==
  LET child == descend(cfg, instance, schema, instance_ctx, schema_ctx, ref_ctx, FastFailErrorRecorder_new, depth + 1)
  IN IF child.abort # "none" THEN AfterChild(errors, child)
     ELSE IF ~child.stop THEN record_error(errors, new_with_context("not", instance_ctx, schema_ctx))
     ELSE errors

\* ref_ entering the referenced subschema one instance step further
ref_found_instance_step(cfg, instance, instance_ctx, schema_ctx, ref_ctx, errors, depth, found) ==
  IF found.ok THEN descend(cfg, instance, found.resolved, push(instance_ctx, "$ref"), schema_ctx, push(ref_ctx, Obj(<< <<"$id", Str(to_string(found.scope))>> >>)), errors, depth + 1)
  ELSE IF found.msg = "panic" THEN Panic(errors)
  ELSE record_error(errors, ValidationError_new(found.msg))

ref_found(cfg, instance, instance_ctx, schema_ctx, ref_ctx, errors, depth, found) ==
  IF found.ok THEN descend(cfg, instance, found.resolved, instance_ctx, schema_ctx, push(ref_ctx, Obj(<< <<"$id", Str(to_string(found.scope))>> >>)), errors, depth + 1)
  ELSE IF found.msg = "panic" THEN Panic(errors)
  ELSE record_error(errors, ValidationError_new(found.msg))

ref_(cfg, instance, schema, parent_schema, instance_ctx, schema_ctx, ref_ctx, errors, depth) ==
  IF IsString(schema) THEN ref_found(cfg, instance, instance_ctx, schema_ctx, ref_ctx, errors, depth, resolve_fragment(cfg.resolver, cfg.draft, schema.s, ref_ctx, cfg.schema))
  ELSE errors

\* if_ descending into `then` / `else` below the frame of `if`
if_keeping_frame(cfg, instance, schema, parent_schema, instance_ctx, schema_ctx, ref_ctx, errors, depth) ==
  LET child == descend(cfg, instance, schema, instance_ctx, schema_ctx, ref_ctx, FastFailErrorRecorder_new, depth + 1)
      branch == IF ~child.stop THEN "then" ELSE "else"
  IN IF child.abort # "none" THEN AfterChild(errors, child)
     ELSE IF contains_key(parent_schema, branch) /\ IsObject(get(parent_schema, branch))
     THEN descend(cfg, instance, get(parent_schema, branch), instance_ctx, push(schema_ctx, branch), ref_ctx, errors, depth + 1)
     ELSE errors

if_(cfg, instance, schema, parent_schema, instance_ctx, schema_ctx, ref_ctx, errors, depth) ==
  LET child == descend(cfg, instance, schema, instance_ctx, schema_ctx, ref_ctx, FastFailErrorRecorder_new, depth + 1)
      branch == IF ~child.stop THEN "then" ELSE "else"
  IN IF child.abort # "none" THEN AfterChild(errors, child)
     ELSE IF contains_key(parent_schema, branch) /\ IsObject(get(parent_schema, branch))
     THEN descend(cfg, instance, get(parent_schema, branch), instance_ctx, push(Front(schema_ctx), branch), ref_ctx, errors, depth + 1)
     ELSE errors

\* The call of a validator of the draft table.
validator_call(validator, cfg, instance, schema, parent_schema, instance_ctx, schema_ctx, ref_ctx, errors, depth) ==
  CASE validator = "ref_" -> ref_(cfg, instance, schema, parent_schema, instance_ctx, schema_ctx, ref_ctx, errors, depth)
    [] validator = "additionalItems" -> additionalItems(cfg, instance, schema, parent_schema, instance_ctx, schema_ctx, ref_ctx, errors, depth)
    [] validator = "additionalProperties" -> additionalProperties(cfg, instance, schema, parent_schema, instance_ctx, schema_ctx, ref_ctx, errors, depth)
    [] validator = "allOf" -> allOf(cfg, instance, schema, parent_schema, instance_ctx, schema_ctx, ref_ctx, errors, depth)
    [] validator = "anyOf" -> anyOf(cfg, instance, schema, parent_schema, instance_ctx, schema_ctx, ref_ctx, errors, depth)
    [] validator = "const_" -> const_(cfg, instance, schema, parent_schema, instance_ctx, schema_ctx, ref_ctx, errors, depth)
    [] validator = "contains" -> contains(cfg, instance, schema, parent_schema, instance_ctx, schema_ctx, ref_ctx, errors, depth)
    [] validator = "dependencies" -> dependencies(cfg, instance, schema, parent_schema, instance_ctx, schema_ctx, ref_ctx, errors, depth)
    [] validator = "enum_" -> enum_(cfg, instance, schema, parent_schema, instance_ctx, schema_ctx, ref_ctx, errors, depth)
    [] validator = "exclusiveMaximum" -> exclusiveMaximum(cfg, instance, schema, parent_schema, instance_ctx, schema_ctx, ref_ctx, errors, depth)
    [] validator = "exclusiveMinimum" -> exclusiveMinimum(cfg, instance, schema, parent_schema, instance_ctx, schema_ctx, ref_ctx, errors, depth)
    [] validator = "format" -> format(cfg, instance, schema, parent_schema, instance_ctx, schema_ctx, ref_ctx, errors, depth)
    [] validator = "if_" -> if_(cfg, instance, schema, parent_schema, instance_ctx, schema_ctx, ref_ctx, errors, depth)
    [] validator = "items" -> items(cfg, instance, schema, parent_schema, instance_ctx, schema_ctx, ref_ctx, errors, depth)
    [] validator = "maxItems" -> maxItems(cfg, instance, schema, parent_schema, instance_ctx, schema_ctx, ref_ctx, errors, depth)
    [] validator = "maxLength" -> maxLength(cfg, instance, schema, parent_schema, instance_ctx, schema_ctx, ref_ctx, errors, depth)
    [] validator = "maxProperties" -> maxProperties(cfg, instance, schema, parent_schema, instance_ctx, schema_ctx, ref_ctx, errors, depth)
    [] validator = "maximum" -> maximum(cfg, instance, schema, parent_schema, instance_ctx, schema_ctx, ref_ctx, errors, depth)
    [] validator = "maximum_draft4" -> maximum_draft4(cfg, instance, schema, parent_schema, instance_ctx, schema_ctx, ref_ctx, errors, depth)
    [] validator = "minItems" -> minItems(cfg, instance, schema, parent_schema, instance_ctx, schema_ctx, ref_ctx, errors, depth)
    [] validator = "minLength" -> minLength(cfg, instance, schema, parent_schema, instance_ctx, schema_ctx, ref_ctx, errors, depth)
    [] validator = "minProperties" -> minProperties(cfg, instance, schema, parent_schema, instance_ctx, schema_ctx, ref_ctx, errors, depth)
    [] validator = "minimum" -> minimum(cfg, instance, schema, parent_schema, instance_ctx, schema_ctx, ref_ctx, errors, depth)
    [] validator = "minimum_draft4" -> minimum_draft4(cfg, instance, schema, parent_schema, instance_ctx, schema_ctx, ref_ctx, errors, depth)
    [] validator = "multipleOf" -> multipleOf(cfg, instance, schema, parent_schema, instance_ctx, schema_ctx, ref_ctx, errors, depth)
    [] validator = "not" -> not(cfg, instance, schema, parent_schema, instance_ctx, schema_ctx, ref_ctx, errors, depth)
    [] validator = "oneOf" -> oneOf(cfg, instance, schema, parent_schema, instance_ctx, schema_ctx, ref_ctx, errors, depth)
    [] validator = "pattern" -> pattern(cfg, instance, schema, parent_schema, instance_ctx, schema_ctx, ref_ctx, errors, depth)
    [] validator = "patternProperties" -> patternProperties(cfg, instance, schema, parent_schema, instance_ctx, schema_ctx, ref_ctx, errors, depth)
    [] validator = "properties" -> properties(cfg, instance, schema, parent_schema, instance_ctx, schema_ctx, ref_ctx, errors, depth)
    [] validator = "propertyNames" -> propertyNames(cfg, instance, schema, parent_schema, instance_ctx, schema_ctx, ref_ctx, errors, depth)
    [] validator = "required" -> required(cfg, instance, schema, parent_schema, instance_ctx, schema_ctx, ref_ctx, errors, depth)
    [] validator = "type_" -> type_(cfg, instance, schema, parent_schema, instance_ctx, schema_ctx, ref_ctx, errors, depth)
    [] validator = "uniqueItems" -> uniqueItems(cfg, instance, schema, parent_schema, instance_ctx, schema_ctx, ref_ctx, errors, depth)

\* One iteration of `for (k, v) in schema_object.iter()` in descend.
\* descend's loop body reporting a key that has no validator
descend_key_strict(cfg, instance, schema_object, i, instance_ctx, schema_ctx, ref_ctx, errors, depth) ==
  LET k == schema_object[i][1]
      v == schema_object[i][2]
      validator == get_validator(cfg.draft, k)
  IN IF validator # "None"
     THEN validator_call(validator, cfg, instance, v, schema_object, instance_ctx, push(schema_ctx, k), ref_ctx, errors, depth)
     ELSE record_error(errors, new_with_schema_context("unknown keyword", push(schema_ctx, k)))

descend_key(cfg, instance, schema_object, i, instance_ctx, schema_ctx, ref_ctx, errors, depth) ==
  LET k == schema_object[i][1]
      v == schema_object[i][2]
      validator == get_validator(cfg.draft, k)
  IN IF validator # "None"
     THEN validator_call(validator, cfg, instance, v, schema_object, instance_ctx, push(schema_ctx, k), ref_ctx, errors, depth)
     ELSE errors

RECURSIVE descend_keys(_, _, _, _, _, _, _, _, _)
descend_keys(cfg, instance, schema_object, i, instance_ctx, schema_ctx, ref_ctx, errors, depth) ==
  IF i > Len(schema_object) THEN errors
  ELSE LET after == descend_key(cfg, instance, schema_object, i, instance_ctx, schema_ctx, ref_ctx, errors, depth)
       IN IF Halted(after) THEN after ELSE descend_keys(cfg, instance, schema_object, i + 1, instance_ctx, schema_ctx, ref_ctx, after, depth)

\* The `$ref` branch of descend.
descend_ref(cfg, instance, schema_object, instance_ctx, schema_ctx, ref_ctx, errors, depth) ==
  IF get_validator(cfg.draft, "$ref") # "None"
  THEN validator_call(get_validator(cfg.draft, "$ref"), cfg, instance, get(schema_object, "$ref"), schema_object, instance_ctx, push(schema_ctx, "$ref"), ref_ctx, errors, depth)
  ELSE errors

\* descend with the boolean branch reading the schema the wrong way round
descend_inverted_bool(cfg, instance, schema, instance_ctx, schema_ctx, ref_ctx, errors, depth) ==
  IF depth > MaxDepth THEN [errors EXCEPT !.abort = "overflow"]
  ELSE IF IsBool(schema) THEN (IF schema.b THEN record_error(errors, new_with_schema_context("false schema always fails", schema_ctx)) ELSE errors)
  ELSE IF IsObject(schema)
  THEN (IF contains_key(schema.kv, "$ref")
        THEN descend_ref(cfg, instance, schema.kv, instance_ctx, schema_ctx, ref_ctx, errors, depth)
        ELSE descend_keys(cfg, instance, schema.kv, 1, instance_ctx, schema_ctx, ref_ctx, errors, depth))
  ELSE record_error(errors, new_with_schema_context("Invalid schema. Must be Bool or Object", schema_ctx))

\* descend without the `$ref` branch: `$ref` is one key of the loop
descend_ref_and_siblings(cfg, instance, schema, instance_ctx, schema_ctx, ref_ctx, errors, depth) ==
  IF depth > MaxDepth THEN [errors EXCEPT !.abort = "overflow"]
  ELSE IF IsBool(schema) THEN (IF ~schema.b THEN record_error(errors, new_with_schema_context("false schema always fails", schema_ctx)) ELSE errors)
  ELSE IF IsObject(schema) THEN descend_keys(cfg, instance, schema.kv, 1, instance_ctx, schema_ctx, ref_ctx, errors, depth)
  ELSE record_error(errors, new_with_schema_context("Invalid schema. Must be Bool or Object", schema_ctx))

\* A descend frame deeper than MaxDepth does not fit on the stack.
descend(cfg, instance, schema, instance_ctx, schema_ctx, ref_ctx, errors, depth) ==
  IF depth > MaxDepth THEN [errors EXCEPT !.abort = "overflow"]
  ELSE IF IsBool(schema) THEN (IF ~schema.b THEN record_error(errors, new_with_schema_context("false schema always fails", schema_ctx)) ELSE errors)
  ELSE IF IsObject(schema)
  THEN (IF contains_key(schema.kv, "$ref")
        THEN descend_ref(cfg, instance, schema.kv, instance_ctx, schema_ctx, ref_ctx, errors, depth)
        ELSE descend_keys(cfg, instance, schema.kv, 1, instance_ctx, schema_ctx, ref_ctx, errors, depth))
  ELSE record_error(errors, new_with_schema_context("Invalid schema. Must be Bool or Object", schema_ctx))

\* ------------------------------------------------------------------ inputs
\* The schemas and instances of the model.  The keys of every object are in
\* sorted order, the iteration order of serde_json::Map.

TypeOf(name) == Obj(<< <<"type", Str(name)>> >>)
Keyword(k, x) == Obj(<< <<k, x>> >>)
Not(x) == Obj(<< <<"not", x>> >>)

\* Single-keyword schemas {K: x}.
KeywordSchemas ==
  { TypeOf("integer"), TypeOf("string"), Keyword("type", Arr(<<Str("string"), Str("null")>>)), Keyword("type", Arr(<<Str("integer"), Str("boolean")>>)),
    Keyword("const", Float(2)), Keyword("const", PosInt(1)), Keyword("const", Str("hi")),
    Keyword("enum", Arr(<<Float(2), Str("a")>>)), Keyword("enum", Arr(<<PosInt(1), Null>>)),
    Keyword("uniqueItems", Bool(TRUE)), Keyword("uniqueItems", Bool(FALSE)),
    Keyword("minimum", PosInt(1)), Keyword("maximum", Float(2)), Keyword("exclusiveMinimum", PosInt(1)),
    Keyword("minItems", PosInt(1)), Keyword("maxItems", PosInt(1)), Keyword("minItems", NegInt(-1)),
    Keyword("multipleOf", PosInt(2)), Keyword("multipleOf", Float(1)), Keyword("multipleOf", NegInt(-2)), Keyword("multipleOf", Float(4)),
    Keyword("multipleOf", PosInt(0)), Keyword("multipleOf", Float(0)), Keyword("maxLength", Float(3)), Keyword("minProperties", NegInt(-1)),
    Keyword("required", Arr(<<Str("a"), Str("b")>>)),
    Keyword("properties", Obj(<< <<"a", TypeOf("integer")>>, <<"b", Bool(FALSE)>> >>)),
    Keyword("properties", Obj(<< <<"foo", TypeOf("integer")>> >>)),
    Keyword("properties", Obj(<< <<"a", Keyword("$ref", Str("#/nowhere"))>> >>)),
    Keyword("items", TypeOf("integer")), Keyword("items", Bool(FALSE)), Keyword("items", Bool(TRUE)),
    Keyword("contains", TypeOf("integer")),
    Keyword("allOf", Arr(<<TypeOf("integer"), Keyword("minimum", PosInt(2))>>)),
    Keyword("anyOf", Arr(<<TypeOf("string"), Keyword("minimum", PosInt(2))>>)), Keyword("anyOf", Arr(<<Bool(FALSE), TypeOf("integer")>>)),
    Keyword("anyOf", Arr(<<Obj(<< <<"minimum", PosInt(2)>>, <<"type", Str("string")>> >>), TypeOf("string")>>)),
    Keyword("oneOf", Arr(<<TypeOf("integer"), Keyword("minimum", PosInt(1)), Bool(TRUE)>>)),
    Keyword("oneOf", Arr(<<TypeOf("string"), TypeOf("integer"), Keyword("minimum", PosInt(2))>>)),
    Keyword("not", TypeOf("integer")), Keyword("not", Bool(FALSE)),
    Keyword("if", TypeOf("integer")),
    Keyword("propertyNames", Keyword("pattern", Str("^a"))),
    Keyword("pattern", Str("^a")), Keyword("format", Str("ipv4")),
    Keyword("$ref", Str("#")), Keyword("$ref", Str("#/definitions/a")), Keyword("$ref", Str("#/not")),
    Keyword("foo", PosInt(1)), Keyword("then", TypeOf("string")), Keyword("definitions", Obj(<< <<"a", Bool(FALSE)>> >>)) }

\* Schemas with several keywords, references and identifiers.
CompositeSchemas ==
  { Bool(TRUE), Bool(FALSE), Obj(<<>>), Arr(<<>>), PosInt(1),
    Obj(<< <<"$ref", Str("#/definitions/a")>>, <<"definitions", Obj(<< <<"a", TypeOf("integer")>> >>)>>, <<"type", Str("string")>> >>),
    Obj(<< <<"$ref", Str("#/definitions/a")>>, <<"definitions", Obj(<< <<"a", Bool(FALSE)>> >>)>>, <<"minItems", NegInt(-1)>> >>),
    Obj(<< <<"$ref", Str("#/definitions/a")>>, <<"definitions", Obj(<< <<"a", Obj(<< <<"$ref", Str("#/definitions/b")>> >>)>>, <<"b", Obj(<< <<"$ref", Str("#/definitions/a")>> >>)>> >>)>> >>),
    Obj(<< <<"$ref", Str("#/definitions/a")>>, <<"definitions", Obj(<< <<"a", Obj(<< <<"$ref", Str("#/definitions/b")>> >>)>>, <<"b", Obj(<< <<"$ref", Str("#/definitions/c")>> >>)>>, <<"c", TypeOf("integer")>> >>)>> >>),
    Obj(<< <<"$ref", Str("#/nowhere")>>, <<"type", Str("string")>> >>),
    Obj(<< <<"definitions", Obj(<< <<"a", TypeOf("integer")>> >>)>>, <<"properties", Obj(<< <<"a", Keyword("$ref", Str("#/definitions/a"))>> >>)>> >>),
    Obj(<< <<"$ref", Str("http://unknown.example/x.json")>> >>),
    Obj(<< <<"$ref", Str("#/%FF")>> >>),
    Obj(<< <<"$ref", Str("http://json-schema.org/draft-06/schema#/definitions/a")>>, <<"definitions", Obj(<< <<"m", Obj(<< <<"$id", Str("http://json-schema.org/draft-06/schema")>>, <<"definitions", Obj(<< <<"a", Bool(FALSE)>> >>)>> >>)>> >>)>> >>),
    Obj(<< <<"$ref", PosInt(1)>>, <<"type", Str("string")>> >>),
    Obj(<< <<"items", Obj(<< <<"$ref", Str("#")>> >>)>>, <<"type", Str("array")>> >>),
    Obj(<< <<"allOf", Arr(<<TypeOf("string"), Obj(<< <<"$ref", Str("#")>> >>)>>)>> >>),
    Obj(<< <<"allOf", Arr(<<TypeOf("string"), Keyword("minItems", NegInt(-1))>>)>> >>),
    Obj(<< <<"$schema", Str("http://json-schema.org/draft-04/schema")>>, <<"const", PosInt(1)>>, <<"exclusiveMinimum", Bool(TRUE)>>, <<"minimum", PosInt(1)>> >>),
    Obj(<< <<"$schema", Str("http://json-schema.org/draft-06/schema")>>, <<"const", PosInt(1)>>, <<"if", Bool(FALSE)>> >>),
    Obj(<< <<"$schema", Str("http://json-schema.org/draft-07/schema")>>, <<"else", TypeOf("string")>>, <<"if", TypeOf("integer")>>, <<"then", Keyword("minimum", PosInt(10))>> >>),
    Obj(<< <<"$schema", Str("http://json-schema.org/draft-04/schema#")>>, <<"const", PosInt(1)>>, <<"items", Bool(FALSE)>> >>),
    Obj(<< <<"$schema", Str("http://json-schema.org/draft-04/schema/")>>, <<"const", PosInt(1)>> >>),
    Obj(<< <<"$schema", PosInt(4)>>, <<"const", PosInt(1)>> >>),
    Obj(<< <<"$id", Str("http://example.com/root.json")>>, <<"$ref", Str("item.json")>>, <<"definitions", Obj(<< <<"a", Obj(<< <<"$id", Str("item.json")>>, <<"type", Str("integer")>> >>)>> >>)>> >>),
    Obj(<< <<"$id", Str("root.json")>>, <<"type", Str("integer")>> >>),
    Obj(<< <<"$id", Str("http://example.com/root.json")>>, <<"definitions", Obj(<< <<"g", Obj(<< <<"$id", Str("item.json")>>, <<"type", Str("integer")>> >>)>> >>)>>,
           <<"items", Obj(<< <<"$id", Str("folder/")>>, <<"definitions", Obj(<< <<"f", Obj(<< <<"$id", Str("item.json")>>, <<"type", Str("string")>> >>)>> >>)>>, <<"items", Keyword("$ref", Str("item.json"))>> >>)>> >>),
    Obj(<< <<"additionalProperties", Bool(FALSE)>>, <<"foo", Str("bar")>>, <<"properties", Obj(<< <<"a", TypeOf("integer")>> >>)>>, <<"required", Arr(<<Str("a"), Str("b")>>)>>, <<"type", Str("object")>> >>),
    Obj(<< <<"maxItems", PosInt(1)>>, <<"minItems", PosInt(1)>>, <<"type", Str("string")>>, <<"uniqueItems", Bool(TRUE)>> >>),
    Obj(<< <<"additionalProperties", Bool(FALSE)>>, <<"patternProperties", Obj(<< <<"(", Obj(<<>>)>>, <<"b", Obj(<<>>)>> >>)>>, <<"properties", Obj(<< <<"a", Obj(<<>>)>> >>)>> >>),
    Obj(<< <<"additionalProperties", TypeOf("string")>>, <<"patternProperties", Obj(<< <<"b", Obj(<<>>)>> >>)>>, <<"properties", Obj(<< <<"a", Obj(<<>>)>> >>)>> >>),
    Keyword("additionalItems", Bool(FALSE)), Keyword("exclusiveMaximum", PosInt(1)),
    Obj(<< <<"allOf", Arr(<< Obj(<< <<"properties", Obj(<< <<"a", TypeOf("integer")>> >>)>>, <<"required", Arr(<<Str("b")>>)>> >>), Obj(<< <<"maxProperties", PosInt(1)>>, <<"type", Str("array")>> >>) >>)>>, <<"type", Str("string")>> >>),
    Obj(<< <<"exclusiveMinimum", Bool(TRUE)>>, <<"minimum", PosInt(1)>> >>), Obj(<< <<"exclusiveMaximum", Bool(TRUE)>>, <<"maximum", PosInt(1)>> >>),
    Obj(<< <<"exclusiveMinimum", PosInt(1)>>, <<"minimum", PosInt(1)>> >>), Obj(<< <<"exclusiveMaximum", PosInt(3)>>, <<"maximum", Float(2)>> >>),
    Obj(<< <<"exclusiveMinimum", Bool(FALSE)>>, <<"minimum", PosInt(1)>> >>),
    Obj(<< <<"additionalItems", Bool(FALSE)>>, <<"items", Obj(<<>>)>> >>),
    Obj(<< <<"additionalItems", Bool(FALSE)>>, <<"items", Bool(TRUE)>> >>),
    Obj(<< <<"additionalItems", Bool(FALSE)>>, <<"items", Arr(<<Obj(<<>>)>>)>> >>),
    Obj(<< <<"additionalItems", TypeOf("integer")>>, <<"items", Arr(<<Obj(<<>>)>>)>> >>),
    Obj(<< <<"bar", Obj(<< <<"type", Str("string")>> >>)>>, <<"foo", Bool(FALSE)>>, <<"title", Str("hi")>> >>) }

NotSchemas == {Not(x) : x \in KeywordSchemas}

SchemaSet == KeywordSchemas \cup NotSchemas \cup CompositeSchemas

InstanceSet ==
  { Null, Bool(TRUE), PosInt(1), Float(2), Float(3), Float(2000000000), PosInt(3), PosInt(4), NegInt(-2), Str("hi"), Str("a"),
    Arr(<<>>), Arr(<<PosInt(1), Float(2)>>), Arr(<<PosInt(1), Str("1")>>), Arr(<<PosInt(1), PosInt(1)>>),
    Arr(<<Arr(<<PosInt(1)>>), Arr(<<Float(2)>>)>>),
    Obj(<<>>), Obj(<< <<"a", PosInt(1)>> >>), Obj(<< <<"a", Str("x")>>, <<"c", Float(2)>> >>),
    Obj(<< <<"a", PosInt(1)>>, <<"b", PosInt(1)>>, <<"c", Str("hi")>>, <<"d", PosInt(1)>> >>),
    Obj(<< <<"foo", Str("bar")>> >>) }

DraftArgs == {"None"} \cup Drafts

\* ------------------------------------------------------------------ lib.rs
\* One test of tests::test_draft: the configuration is built from the schema,
\* validate is iterated to exhaustion (every error is collected), then
\* is_valid asks for the first error only.  A run of descend on the root
\* schema takes one step per keyword of the root object.

VARIABLES schema, draftArg, instance, cfg, phase, i, collected, first, threads, verdicts

vars == <<schema, draftArg, instance, cfg, phase, i, collected, first, threads, verdicts>>

\* The threads of examples/threaded.rs, each with the state of its call of
\* validate; verdicts holds the <<instance, valid>> pairs the calls returned.
Threads == {"main", "spawned"}
Idle == [pc |-> "idle", data |-> Null, i |-> 0, errors |-> ValidationErrors_new, calls |-> 0]

NoConfig == [ok |-> FALSE, schema |-> Null, resolver |-> [ok |-> FALSE, base_url |-> "", id_mapping |-> <<>>], draft |-> "Draft7"]

\* The steps of descend at the root: one per key of a schema object without
\* `$ref`, one otherwise.
RootSteps(root) == IF IsObject(root) /\ ~contains_key(root.kv, "$ref") THEN Len(root.kv) ELSE 1

RootStep(config, inst, root, n, errors) ==
  IF IsObject(root) /\ ~contains_key(root.kv, "$ref")
  THEN descend_key(config, inst, root.kv, n, <<>>, <<>>, <<root>>, errors, 0)
  ELSE descend(config, inst, root, <<>>, <<>>, <<root>>, errors, 0)

RunOver(root, n, errors) == Halted(errors) \/ n > RootSteps(root)

\* validate(cfg, instance, schema, false) as one call
validate(config, inst, root) == descend(config, inst, root, <<>>, <<>>, <<root>>, ValidationErrors_new, 0)

\* is_valid(cfg, instance, schema, false): the run that stops at the first error
is_valid(config, inst, root) == descend(config, inst, root, <<>>, <<>>, <<root>>, FastFailErrorRecorder_new, 0)

Init ==
  /\ schema \in SchemaSet
  /\ draftArg \in DraftArgs
  /\ instance \in InstanceSet
  /\ cfg = NoConfig
  /\ phase = "start"
  /\ i = 0
  /\ collected = ValidationErrors_new
  /\ first = FastFailErrorRecorder_new
  /\ threads = [t \in Threads |-> Idle]
  /\ verdicts = {}

FromSchema ==
  /\ phase = "start"
  /\ cfg' = Config_from_schema(schema, draftArg)
  /\ phase' = IF cfg'.ok THEN "configured" ELSE "config_error"
  /\ UNCHANGED <<schema, draftArg, instance, i, collected, first, threads, verdicts>>

ValidateCall ==
  /\ phase = "configured"
  /\ phase' = "validate"
  /\ i' = 1
  /\ collected' = ValidationErrors_new
  /\ UNCHANGED <<schema, draftArg, instance, cfg, first, threads, verdicts>>

ValidateStep ==
  /\ phase = "validate"
  /\ ~RunOver(schema, i, collected)
  /\ collected' = RootStep(cfg, instance, schema, i, collected)
  /\ i' = i + 1
  /\ UNCHANGED <<schema, draftArg, instance, cfg, phase, first, threads, verdicts>>

ValidateReturn ==
  /\ phase = "validate"
  /\ RunOver(schema, i, collected)
  /\ phase' = IF collected.abort # "none" THEN "crashed" ELSE "validated"
  /\ UNCHANGED <<schema, draftArg, instance, cfg, i, collected, first, threads, verdicts>>

IsValidCall ==
  /\ phase = "validated"
  /\ phase' = "is_valid"
  /\ i' = 1
  /\ first' = FastFailErrorRecorder_new
  /\ UNCHANGED <<schema, draftArg, instance, cfg, collected, threads, verdicts>>

IsValidStep ==
  /\ phase = "is_valid"
  /\ ~RunOver(schema, i, first)
  /\ first' = RootStep(cfg, instance, schema, i, first)
  /\ i' = i + 1
  /\ UNCHANGED <<schema, draftArg, instance, cfg, phase, collected, threads, verdicts>>

IsValidReturn ==
  /\ phase = "is_valid"
  /\ RunOver(schema, i, first)
  /\ phase' = IF first.abort # "none" THEN "crashed" ELSE "done"
  /\ UNCHANGED <<schema, draftArg, instance, cfg, i, collected, first, threads, verdicts>>

Next == FromSchema \/ ValidateCall \/ ValidateStep \/ ValidateReturn \/ IsValidCall \/ IsValidStep \/ IsValidReturn

Spec == Init /\ [][Next]_vars

\* ------------------------------------------------------------------ examples/threaded.rs
\* SCHEMA and SCHEMA_CFG are lazy statics: the thread that dereferences
\* SCHEMA_CFG first builds the configuration (phase = "start" until then), and
\* every thread validates its own data against the one shared configuration.
\* A call of validate takes one step per keyword of the root schema, so the
\* calls of the threads interleave keyword by keyword.

MaxCalls == 2

ThreadSchemas ==
  { Bool(FALSE), Keyword("$ref", Str("#")), Keyword("minItems", NegInt(-1)),
    Obj(<< <<"$id", Str("root.json")>>, <<"type", Str("integer")>> >>),
    Obj(<< <<"anyOf", Arr(<<TypeOf("string"), Bool(FALSE)>>)>>, <<"if", TypeOf("integer")>>, <<"then", Keyword("minimum", PosInt(2))>> >>),
    Obj(<< <<"maxItems", PosInt(1)>>, <<"minItems", PosInt(1)>>, <<"type", Str("string")>>, <<"uniqueItems", Bool(TRUE)>> >>),
    Obj(<< <<"$ref", Str("#/definitions/a")>>, <<"definitions", Obj(<< <<"a", TypeOf("integer")>> >>)>>, <<"type", Str("string")>> >>) }

ThreadInstances == {PosInt(1), Str("hi"), Arr(<<PosInt(1), PosInt(1)>>)}

ThreadDraftArgs == {"None", "Draft6"}

InitThreads ==
  /\ schema \in ThreadSchemas
  /\ draftArg \in ThreadDraftArgs
  /\ instance = Null
  /\ cfg = NoConfig
  /\ phase = "start"
  /\ i = 0
  /\ collected = ValidationErrors_new
  /\ first = FastFailErrorRecorder_new
  /\ threads = [t \in Threads |-> Idle]
  /\ verdicts = {}

\* a recorder kept with the shared configuration: a call starts from what
\* the running call of another thread has recorded
call_recorder_shared(t) == IF \E u \in Threads \ {t} : threads[u].pc = "validate" THEN threads[CHOOSE u \in Threads \ {t} : threads[u].pc = "validate"].errors ELSE ValidationErrors_new

\* The recorder of a call of validate: a new one for every call.
call_recorder(t) == ValidationErrors_new

\* SCHEMA_CFG.validate(&data): the dereference of the lazy static, which
\* builds the configuration when no thread has yet (the unwrap panics when
\* from_schema fails, and the static stays poisoned), then the call.
ThreadCall(t) ==
  /\ threads[t].pc = "idle"
  /\ threads[t].calls < MaxCalls
  /\ \E data \in ThreadInstances :
       LET built == Config_from_schema(schema, draftArg)
       IN /\ cfg' = IF phase = "start" /\ built.ok THEN built ELSE cfg
          /\ phase' = IF phase = "start" THEN (IF built.ok THEN "configured" ELSE "config_error") ELSE phase
          /\ threads' = [threads EXCEPT ![t] = IF phase' = "config_error" THEN [@ EXCEPT !.pc = "panicked"]
                                                ELSE [pc |-> "validate", data |-> data, i |-> 1, errors |-> call_recorder(t), calls |-> @.calls + 1]]
  /\ UNCHANGED <<schema, draftArg, instance, i, collected, first, verdicts>>

ThreadStep(t) ==
  /\ threads[t].pc = "validate"
  /\ ~RunOver(schema, threads[t].i, threads[t].errors)
  /\ threads' = [threads EXCEPT ![t].errors = RootStep(cfg, threads[t].data, schema, threads[t].i, threads[t].errors), ![t].i = @ + 1]
  /\ UNCHANGED <<schema, draftArg, instance, cfg, phase, i, collected, first, verdicts>>

ThreadReturn(t) ==
  /\ threads[t].pc = "validate"
  /\ RunOver(schema, threads[t].i, threads[t].errors)
  /\ threads' = [threads EXCEPT ![t].pc = IF threads[t].errors.abort # "none" THEN "panicked" ELSE "idle"]
  /\ verdicts' = IF threads[t].errors.abort # "none" THEN verdicts ELSE verdicts \cup {<<threads[t].data, threads[t].errors.errs = <<>> >>}
  /\ UNCHANGED <<schema, draftArg, instance, cfg, phase, i, collected, first>>

NextThreads == \E t \in Threads : ThreadCall(t) \/ ThreadStep(t) \/ ThreadReturn(t)

SpecThreads == InitThreads /\ [][NextThreads]_vars

\* ------------------------------------------------------------------ claims

Configured == phase \in {"configured", "validate", "validated", "is_valid", "done", "crashed"}
Validated == phase \in {"validated", "is_valid", "done"}

\* The path contexts a boolean subschema is evaluated under.
InstancePaths == {<<>>, <<"a">>, <<"0", "a">>}
SchemaPaths == {<<>>, <<"not">>, <<"properties", "a">>, <<"items", "0">>}

\* C1: for every instance, draft and path context, descend on the schema
\* `true` records no error and descend on the schema `false` records exactly
\* one error, at the schema path of that point of the evaluation.
C1_BooleanSchema ==
  /\ Validated /\ schema = Bool(TRUE) => collected.errs = <<>>
  /\ Validated /\ schema = Bool(FALSE) => Len(collected.errs) = 1 /\ collected.errs[1].schema_path = <<>>
  /\ Configured /\ ~Halted(collected) =>
       \A ip \in InstancePaths, sp \in SchemaPaths :
         /\ descend(cfg, instance, Bool(TRUE), ip, sp, <<schema>>, collected, 1) = collected
         /\ descend(cfg, instance, Bool(FALSE), ip, sp, <<schema>>, collected, 1).errs = Append(collected.errs, [msg |-> "false schema always fails", detail |-> <<>>, instance_path |-> <<>>, schema_path |-> Reverse(sp)])

\* A finished run on the root schema `false` holds its one error.
C1_Witness == phase = "done" /\ schema = Bool(FALSE) /\ Len(collected.errs) = 1 /\ collected.errs[1].msg = "false schema always fails"

\* C2: validate terminates for every schema and instance, also when the
\* `$ref`s of the schema form a cycle that is re-entered on the same instance
\* node: no run descends until the stack is exhausted.
C2_ValidateTerminates == collected.abort # "overflow" /\ first.abort # "overflow"

\* The referenced subschema of the root object, as resolve_fragment finds it.
RootRef == resolve_fragment(cfg.resolver, cfg.draft, get(schema.kv, "$ref").s, <<schema>>, schema)
HasRef(root) == IsObject(root) /\ contains_key(root.kv, "$ref")
Last(seq) == seq[Len(seq)]

\* C3: when a schema object holds `$ref` only the `$ref` validator runs: every
\* error comes from the reference (its schema path starts with `$ref`, or it
\* is the resolution error), and the errors are those of the referenced
\* subschema alone.
C3_RefOnly ==
  Validated /\ HasRef(schema) =>
    /\ \A k \in 1..Len(collected.errs) : collected.errs[k].schema_path = <<>> \/ Last(collected.errs[k].schema_path) = "$ref"
    /\ ~IsString(get(schema.kv, "$ref")) => collected.errs = <<>>
    /\ IsString(get(schema.kv, "$ref")) /\ ~RootRef.ok => Len(collected.errs) = 1 /\ collected.errs[1].schema_path = <<>>
    /\ IsString(get(schema.kv, "$ref")) /\ RootRef.ok =>
         LET alone == descend(cfg, instance, RootRef.resolved, <<>>, <<>>, <<schema, Obj(<< <<"$id", Str(to_string(RootRef.scope))>> >>)>>, ValidationErrors_new, 1)
         IN /\ alone.abort = "none"
            /\ Len(alone.errs) = Len(collected.errs)
            /\ \A k \in 1..Len(alone.errs) : collected.errs[k].msg = alone.errs[k].msg /\ collected.errs[k].schema_path = alone.errs[k].schema_path \o <<"$ref">>

\* The sibling `type: string` of a reference to `type: integer` would have
\* rejected the instance 1.
C3_Witness == phase = "done" /\ HasRef(schema) /\ contains_key(schema.kv, "type") /\ IsString(get(schema.kv, "$ref")) /\ RootRef.ok /\ instance = PosInt(1) /\ collected.errs = <<>>

Unregistered(root) == IsObject(root) /\ \A k \in 1..Len(root.kv) : get_validator(cfg.draft, root.kv[k][1]) = "None"

\* C4: a schema object none of whose keys is registered in the draft's table
\* records no error for any instance, and the step of a key with no
\* registered validator leaves the recorder as it is.
C4_UnknownKeywords ==
  /\ Configured /\ Unregistered(schema) => collected.errs = <<>> /\ first.errs = <<>> /\ phase # "crashed"
  /\ phase = "validate" /\ IsObject(schema) /\ ~HasRef(schema) /\ i <= Len(schema.kv) /\ get_validator(cfg.draft, schema.kv[i][1]) = "None"
       => RootStep(cfg, instance, schema, i, collected) = collected

\* Draft 4 has no `const`: {"const": "hi"} accepts null there.
C4_Witness == phase = "done" /\ schema = Keyword("const", Str("hi")) /\ cfg.draft = "Draft4" /\ instance = Null /\ i = 2 /\ collected.errs = <<>>

\* The selection Config::from_schema is to make.
SelectedDraft ==
  IF draftArg # "None" THEN draftArg
  ELSE IF IsObject(schema) /\ contains_key(schema.kv, "$schema") /\ get(schema.kv, "$schema") = Str("http://json-schema.org/draft-04/schema") THEN "Draft4"
  ELSE IF IsObject(schema) /\ contains_key(schema.kv, "$schema") /\ get(schema.kv, "$schema") = Str("http://json-schema.org/draft-06/schema") THEN "Draft6"
  ELSE "Draft7"

\* C5: from_schema selects the explicit draft when given, otherwise the draft
\* whose meta-schema URI is exactly the root `$schema` string, otherwise
\* Draft 7; the draft number is 4, 6 or 7 and matches the selection.
C5_DraftSelection ==
  Configured =>
    /\ cfg.draft = SelectedDraft
    /\ get_draft_number(cfg.draft) \in {4, 6, 7}
    /\ get_draft_number(cfg.draft) = 4 <=> SelectedDraft = "Draft4"
    /\ get_draft_number(cfg.draft) = 6 <=> SelectedDraft = "Draft6"
    /\ get_draft_number(cfg.draft) = 7 <=> SelectedDraft = "Draft7"

\* The Draft 4 URI with a trailing "#" is not the known URI: Draft 7.
C5_Witness == phase = "configured" /\ draftArg = "None" /\ IsObject(schema) /\ get_opt(schema.kv, "$schema") = Str("http://json-schema.org/draft-04/schema#") /\ cfg.draft = "Draft7"

\* C6: the fast-fail verdict equals the collect-all verdict: is_valid returns
\* true exactly when validate, iterated to exhaustion, yields no error.
C6_FastFailVerdict ==
  /\ phase = "done" => ((first.errs = <<>>) <=> (collected.errs = <<>>))
  /\ phase = "done" => (is_valid(cfg, instance, schema).errs = <<>>) <=> (validate(cfg, instance, schema).errs = <<>>)
  /\ phase \in {"is_valid", "done", "crashed"} => first.abort = "none"

\* is_valid stopped at the first of two errors of the collect-all run.
C6_Witness == phase = "done" /\ Len(first.errs) = 1 /\ Len(collected.errs) >= 2 /\ first.stop

\* C7: for a fixed configuration and instance validate returns the same
\* verdict on every invocation, also when several threads validate against
\* the shared configuration concurrently in any interleaving.
C7_SameVerdict ==
  /\ \A v, w \in verdicts : v[1] = w[1] => v[2] = w[2]
  /\ \A v \in verdicts : v[2] = (validate(cfg, v[1], schema).errs = <<>>)

\* Both threads are in the middle of a call on the same data while a verdict
\* for that data has been returned before.
C7_Witness == threads["main"].pc = "validate" /\ threads["spawned"].pc = "validate" /\ threads["main"].i > 1 /\ threads["spawned"].i > 1 /\ threads["main"].data = threads["spawned"].data /\ \E v \in verdicts : v[1] = threads["main"].data /\ ~v[2]

\* C8: for a keyword schema {K: x}, validation against {"not": {K: x}} fails
\* exactly when validation against {K: x} succeeds; `not` records exactly one
\* error when its subschema accepts the instance and none when it rejects it.
C8_NotDuality ==
  Validated /\ schema \in NotSchemas =>
    LET inner == get(schema.kv, "not")
        innerCfg == Config_from_schema(inner, draftArg)
        alone == validate(innerCfg, instance, inner)
    IN innerCfg.ok /\ alone.abort = "none" =>
         /\ (alone.errs = <<>>) <=> (collected.errs # <<>>)
         /\ alone.errs = <<>> => Len(collected.errs) = 1 /\ collected.errs[1].msg = "not" /\ collected.errs[1].schema_path = <<"not">>
         /\ alone.errs # <<>> => collected.errs = <<>>

\* {"not": {"type": "integer"}} has rejected 1 with the one error of `not`.
C8_Witness == phase = "done" /\ schema = Not(TypeOf("integer")) /\ instance = PosInt(1) /\ Len(collected.errs) = 1 /\ collected.errs[1].msg = "not"

\* Equality of JSON values as JSON Schema defines it: numbers by their
\* mathematical value, arrays and objects member by member.
RECURSIVE NumericEqual(_, _)
NumericEqual(x, y) ==
  IF IsNumber(x) /\ IsNumber(y) THEN x.h = y.h
  ELSE IF IsArray(x) /\ IsArray(y) THEN Len(x.a) = Len(y.a) /\ \A k \in 1..Len(x.a) : NumericEqual(x.a[k], y.a[k])
  ELSE IF IsObject(x) /\ IsObject(y) THEN Len(x.kv) = Len(y.kv) /\ \A k \in 1..Len(x.kv) : x.kv[k][1] = y.kv[k][1] /\ NumericEqual(x.kv[k][2], y.kv[k][2])
  ELSE x = y

\* C9: `uniqueItems: true` records an error exactly when two elements of the
\* array are equal under numeric-aware structural equality ([1, 1.0] is
\* rejected, [1, "1"] accepted), and elements equal in that way have the same
\* hash.
C9_UniqueItemsNumeric ==
  Validated /\ schema = Keyword("uniqueItems", Bool(TRUE)) /\ IsArray(instance) =>
    /\ (collected.errs # <<>>) <=> (\E j, k \in 1..Len(instance.a) : j < k /\ NumericEqual(instance.a[j], instance.a[k]))
    /\ \A j, k \in 1..Len(instance.a) : NumericEqual(instance.a[j], instance.a[k]) => hash(instance.a[j]) = hash(instance.a[k])

\* C10: `const` and `enum` compare the instance with the schema value by
\* numeric-aware equality: the integer 1 matches the schema value 1.0.
C10_EnumConstNumeric ==
  /\ Validated /\ schema \in KeywordSchemas /\ schema.kv[1][1] = "const" /\ cfg.draft # "Draft4"
       => ((collected.errs = <<>>) <=> NumericEqual(instance, schema.kv[1][2]))
  /\ Validated /\ schema \in KeywordSchemas /\ schema.kv[1][1] = "enum"
       => ((collected.errs = <<>>) <=> (\E k \in 1..Len(schema.kv[1][2].a) : NumericEqual(instance, schema.kv[1][2].a[k])))

\* The JSON Schema type names and the values each one takes.
TypeMatches(inst, name) ==
  CASE name = "array" -> inst.t = "arr"
    [] name = "object" -> inst.t = "obj"
    [] name = "null" -> inst.t = "null"
    [] name = "number" -> inst.t = "num"
    [] name = "string" -> inst.t = "str"
    [] name = "boolean" -> inst.t = "bool"
    [] name = "integer" -> inst.t = "num" /\ inst.h % 2 = 0

\* C11: `type: "integer"` accepts every integer-encoded number and every float
\* of integral value (1, 1.0, 1e9) and rejects every other number (1.5) and
\* every non-number, with one error; a `type` array accepts the instance
\* exactly when one of the listed types matches.
C11_TypeInteger ==
  /\ Validated /\ schema = TypeOf("integer") =>
       /\ (collected.errs = <<>>) <=> (IsNumber(instance) /\ instance.h % 2 = 0)
       /\ IsNumber(instance) /\ instance.enc \in {"u64", "i64"} => collected.errs = <<>>
       /\ collected.errs # <<>> => Len(collected.errs) = 1 /\ collected.errs[1].msg = "is not of type" /\ collected.errs[1].schema_path = <<"type">>
  /\ Validated /\ schema \in KeywordSchemas /\ schema.kv[1][1] = "type" /\ IsArray(schema.kv[1][2]) =>
       ((collected.errs = <<>>) <=> (\E k \in 1..Len(schema.kv[1][2].a) : TypeMatches(instance, schema.kv[1][2].a[k].s)))
  /\ Configured => \A name \in {"array", "object", "null", "number", "string", "boolean", "integer"} : single_type(instance, Str(name)) = TypeMatches(instance, name)

\* The float 1.0 has passed `type: "integer"`.
C11_Witness == phase = "done" /\ schema = TypeOf("integer") /\ instance = Float(2) /\ collected.errs = <<>>

\* The names of a `required` array that the object lacks, in the order of the array.
MissingNames(object, names) == SelectSeq([k \in 1..Len(names) |-> names[k].s], LAMBDA name : ~contains_key(object, name))

\* C12: `required` on an object records exactly one error when at least one
\* listed name is missing, whatever the number of missing names, and that
\* error lists all the missing names; it records none when every name is
\* present.
C12_RequiredOneError ==
  Validated /\ schema = Keyword("required", Arr(<<Str("a"), Str("b")>>)) /\ IsObject(instance) =>
    /\ MissingNames(instance.kv, schema.kv[1][2].a) = <<>> => collected.errs = <<>>
    /\ MissingNames(instance.kv, schema.kv[1][2].a) # <<>> => Len(collected.errs) = 1 /\ collected.errs[1].detail = MissingNames(instance.kv, schema.kv[1][2].a)

\* The extras of an object under a parent schema: the keys that are no key of
\* the sibling `properties` and that no pattern of the sibling
\* `patternProperties` matches.
Sibling(parent, key) == IF contains_key(parent, key) /\ IsObject(get(parent, key)) THEN get(parent, key).kv ELSE <<>>
Extras(object, parent) == SelectSeq(keys(object), LAMBDA key : ~contains_key(Sibling(parent, "properties"), key) /\ ~(\E p \in 1..Len(Sibling(parent, "patternProperties")) : RegexOk(Sibling(parent, "patternProperties")[p][1]) /\ is_match(Sibling(parent, "patternProperties")[p][1], key)))

\* The errors of a run reported under the root keyword.
ErrorsUnder(errs, keyword) == SelectSeq(errs, LAMBDA e : e.schema_path # <<>> /\ Last(e.schema_path) = keyword)

\* C13: `additionalProperties` takes as extras exactly the instance keys that
\* are neither a key of the sibling `properties` nor matched by a sibling
\* `patternProperties` pattern; with `false` it records one error naming all
\* the extras when there are extras and none otherwise; with an object schema
\* it validates the value of each extra, and of no other key, against it.
C13_AdditionalProperties ==
  /\ Configured /\ IsObject(schema) /\ IsObject(instance) => find_additional_properties(instance.kv, schema.kv) = Extras(instance.kv, schema.kv)
  /\ Validated /\ IsObject(schema) /\ ~HasRef(schema) /\ get_opt(schema.kv, "additionalProperties") = Bool(FALSE) /\ IsObject(instance) =>
       /\ Extras(instance.kv, schema.kv) = <<>> => ErrorsUnder(collected.errs, "additionalProperties") = <<>>
       /\ Extras(instance.kv, schema.kv) # <<>> =>
            /\ Len(ErrorsUnder(collected.errs, "additionalProperties")) = 1
            /\ ErrorsUnder(collected.errs, "additionalProperties")[1].detail = Extras(instance.kv, schema.kv)
            /\ ErrorsUnder(collected.errs, "additionalProperties")[1].schema_path = <<"additionalProperties">>
  /\ Validated /\ IsObject(schema) /\ ~HasRef(schema) /\ get_opt(schema.kv, "additionalProperties") = TypeOf("string") /\ IsObject(instance) =>
       [k \in 1..Len(ErrorsUnder(collected.errs, "additionalProperties")) |-> ErrorsUnder(collected.errs, "additionalProperties")[k].instance_path]
         = [k \in 1..Len(SelectSeq(Extras(instance.kv, schema.kv), LAMBDA key : ~IsString(get(instance.kv, key)))) |-> <<SelectSeq(Extras(instance.kv, schema.kv), LAMBDA key : ~IsString(get(instance.kv, key)))[k]>>]

\* {a, bar, c, d} under properties {a} and the pattern "b": the one error of
\* `additionalProperties: false` names c and d.
C13_Witness == phase = "done" /\ IsObject(schema) /\ get_opt(schema.kv, "additionalProperties") = Bool(FALSE) /\ contains_key(schema.kv, "patternProperties") /\ Len(ErrorsUnder(collected.errs, "additionalProperties")) = 1 /\ ErrorsUnder(collected.errs, "additionalProperties")[1].detail = <<"c", "d">>

\* The indices, as path steps, of the elements from index n on that are no integer.
NonIntegersFrom(a, n) == SelectSeq([k \in 1..Len(a) |-> k - 1], LAMBDA index : index >= n /\ ~TypeMatches(a[index + 1], "integer"))

\* C14: `additionalItems` is active only when the sibling `items` is an
\* array: with `items` absent, an object or a boolean it records no error for
\* any array; with `items` an array of length N, `false` records one error
\* exactly when the array has more than N elements, and an object schema is
\* applied to exactly the elements at index N and above.
C14_AdditionalItems ==
  Validated /\ IsObject(schema) /\ ~HasRef(schema) /\ contains_key(schema.kv, "additionalItems") /\ IsArray(instance) =>
    /\ ~IsArray(get_opt(schema.kv, "items")) => ErrorsUnder(collected.errs, "additionalItems") = <<>>
    /\ IsArray(get_opt(schema.kv, "items")) /\ get(schema.kv, "additionalItems") = Bool(FALSE) =>
         Len(ErrorsUnder(collected.errs, "additionalItems")) = (IF Len(instance.a) > Len(get(schema.kv, "items").a) THEN 1 ELSE 0)
    /\ IsArray(get_opt(schema.kv, "items")) /\ get(schema.kv, "additionalItems") = TypeOf("integer") =>
         [k \in 1..Len(ErrorsUnder(collected.errs, "additionalItems")) |-> ErrorsUnder(collected.errs, "additionalItems")[k].instance_path]
           = [k \in 1..Len(NonIntegersFrom(instance.a, Len(get(schema.kv, "items").a))) |-> <<IndexStr(NonIntegersFrom(instance.a, Len(get(schema.kv, "items").a))[k])>>]

\* The subschema, evaluated on its own under the configuration of the run,
\* accepts the instance.
Accepts(sub) == descend(cfg, instance, sub, <<>>, <<>>, <<schema>>, ValidationErrors_new, 1).errs = <<>>

\* C15: `anyOf` records no error exactly when at least one subschema of the
\* array accepts the instance; otherwise it records exactly one summary
\* error, and no error of a subschema reaches the caller's errors.
C15_AnyOf ==
  Validated /\ schema \in KeywordSchemas /\ schema.kv[1][1] = "anyOf" =>
    /\ (collected.errs = <<>>) <=> (\E k \in 1..Len(schema.kv[1][2].a) : Accepts(schema.kv[1][2].a[k]))
    /\ Len(collected.errs) <= 1
    /\ \A k \in 1..Len(collected.errs) : collected.errs[k].msg = "anyOf" /\ collected.errs[k].schema_path = <<"anyOf">> /\ collected.errs[k].instance_path = <<>>

\* 1 is no string and is below 2: the one error of `anyOf`.
C15_Witness == phase = "done" /\ schema = Keyword("anyOf", Arr(<<TypeOf("string"), Keyword("minimum", PosInt(2))>>)) /\ instance = PosInt(1) /\ Len(collected.errs) = 1 /\ collected.errs[1].msg = "anyOf"

\* The positions of the subschemas of the array that accept the instance.
Accepting(subs) == {k \in 1..Len(subs) : Accepts(subs[k])}

\* C16: `oneOf` records no error exactly when exactly one subschema of the
\* array accepts the instance; with none it records the one error "nothing
\* matched", with two or more the one error "more than one matched", wherever
\* the accepting subschemas stand in the array.
C16_OneOf ==
  Validated /\ schema \in KeywordSchemas /\ schema.kv[1][1] = "oneOf" =>
    /\ Cardinality(Accepting(schema.kv[1][2].a)) = 1 => collected.errs = <<>>
    /\ Cardinality(Accepting(schema.kv[1][2].a)) = 0 => Len(collected.errs) = 1 /\ collected.errs[1].msg = "Nothing matched in oneOf"
    /\ Cardinality(Accepting(schema.kv[1][2].a)) >= 2 => Len(collected.errs) = 1 /\ collected.errs[1].msg = "More than one matched in oneOf"

\* "hi" is a string and passes `minimum`: the first and the third subschema
\* accept it, the second does not.
C16_Witness == phase = "done" /\ instance = Str("hi") /\ IsObject(schema) /\ get_opt(schema.kv, "oneOf") = Arr(<<TypeOf("string"), TypeOf("integer"), Keyword("minimum", PosInt(2))>>) /\ Len(collected.errs) = 1 /\ collected.errs[1].msg = "More than one matched in oneOf"

\* The schema of scenario S6 and the branch its `if` selects for the instance.
IfThenElse == Obj(<< <<"$schema", Str("http://json-schema.org/draft-07/schema")>>, <<"else", TypeOf("string")>>, <<"if", TypeOf("integer")>>, <<"then", Keyword("minimum", PosInt(10))>> >>)
OnlyIf(root) == IsObject(root) /\ contains_key(root.kv, "if") /\ \A k \in 1..Len(root.kv) : root.kv[k][1] \in {"$schema", "if", "then", "else"}
IfBranch == IF Accepts(get(schema.kv, "if")) THEN "then" ELSE "else"
BranchAlone == descend(cfg, instance, get(schema.kv, IfBranch), <<>>, <<IfBranch>>, <<schema>>, ValidationErrors_new, 1)

\* C17: under Draft 7 the errors of the `if` subschema are never reported;
\* when `if` accepts and `then` is an object the errors are exactly those of
\* `then`, with schema paths that start at `then` and hold no `if` step; when
\* `if` rejects and `else` is an object, exactly those of `else`; otherwise
\* nothing.  For {if: integer, then: minimum 10, else: string}: an integer
\* below 10 gives one error at /then/minimum, "hi" is valid, true gives one
\* error at /else/type.
C17_IfThenElse ==
  /\ Validated /\ cfg.draft = "Draft7" /\ OnlyIf(schema) =>
       /\ \A k \in 1..Len(collected.errs) : \A step \in 1..Len(collected.errs[k].schema_path) : collected.errs[k].schema_path[step] # "if"
       /\ IsObject(get_opt(schema.kv, IfBranch)) => collected.errs = BranchAlone.errs /\ \A k \in 1..Len(collected.errs) : Last(collected.errs[k].schema_path) = IfBranch
       /\ ~IsObject(get_opt(schema.kv, IfBranch)) => collected.errs = <<>>
  /\ Validated /\ cfg.draft = "Draft7" /\ schema = IfThenElse =>
       /\ instance \in {PosInt(1), PosInt(3), PosInt(4)} => Len(collected.errs) = 1 /\ collected.errs[1].schema_path = <<"minimum", "then">>
       /\ instance = Str("hi") => collected.errs = <<>>
       /\ instance = Bool(TRUE) => Len(collected.errs) = 1 /\ collected.errs[1].schema_path = <<"type", "else">>

\* true is no integer and no string: the one error of `else`.
C17_Witness == phase = "done" /\ cfg.draft = "Draft7" /\ schema = IfThenElse /\ instance = Bool(TRUE) /\ Len(collected.errs) = 1 /\ collected.errs[1].schema_path = <<"type", "else">>

\* A root schema that holds the one keyword.
OnlyKeyword(root, keyword) == IsObject(root) /\ Len(root.kv) = 1 /\ root.kv[1][1] = keyword
\* The step of a stored path next to the outermost one.
Second(path) == path[Len(path) - 1]

\* C18: every reported error carries the path of the steps taken to reach
\* it: a descent through properties["x"] adds "x" to the instance path and to
\* the schema path, an `allOf` element adds its index to the schema path only,
\* and the failing keyword is the innermost schema step.  The paths are
\* stored innermost first and rendered root first: {properties: {foo: {type:
\* integer}}} on {foo: "bar"} gives one error with instance_path [foo] (/foo)
\* and schema_path [type, foo, properties] (/properties/foo/type); an empty
\* path renders as /.
C18_ErrorPaths ==
  /\ Validated /\ OnlyKeyword(schema, "properties") /\ IsObject(schema.kv[1][2]) /\ IsObject(instance) =>
       \A k \in 1..Len(collected.errs) :
         /\ Len(collected.errs[k].schema_path) >= 2
         /\ Last(collected.errs[k].schema_path) = "properties"
         /\ contains_key(schema.kv[1][2].kv, Second(collected.errs[k].schema_path))
         /\ collected.errs[k].instance_path # <<>>
         /\ Last(collected.errs[k].instance_path) = Second(collected.errs[k].schema_path)
         /\ collected.errs[k].msg = "false schema always fails" \/ get_validator(cfg.draft, Head(collected.errs[k].schema_path)) # "None"
  /\ Validated /\ OnlyKeyword(schema, "allOf") /\ IsArray(schema.kv[1][2]) =>
       \A k \in 1..Len(collected.errs) :
         /\ Len(collected.errs[k].schema_path) >= 2
         /\ Last(collected.errs[k].schema_path) = "allOf"
         /\ Second(collected.errs[k].schema_path) \in {IndexStr(n) : n \in 0..(Len(schema.kv[1][2].a) - 1)}
         /\ collected.errs[k].instance_path = <<>>
         /\ get_validator(cfg.draft, Head(collected.errs[k].schema_path)) # "None"
  /\ Validated /\ schema = Keyword("properties", Obj(<< <<"foo", TypeOf("integer")>> >>)) /\ instance = Obj(<< <<"foo", Str("bar")>> >>) =>
       /\ Len(collected.errs) = 1
       /\ collected.errs[1].instance_path = <<"foo">>
       /\ collected.errs[1].schema_path = <<"type", "foo", "properties">>
       /\ path_to_string(collected.errs[1].instance_path) = "/foo"
       /\ path_to_string(collected.errs[1].schema_path) = "/properties/foo/type"
  /\ Validated /\ schema = TypeOf("integer") /\ instance = Str("hi") =>
       /\ Len(collected.errs) = 1
       /\ path_to_string(collected.errs[1].instance_path) = "/"
       /\ path_to_string(collected.errs[1].schema_path) = "/type"

\* The schemas of C19: a reference below `properties`, and a chain of three
\* references from the root.
RefBelowProperty == Obj(<< <<"definitions", Obj(<< <<"a", TypeOf("integer")>> >>)>>, <<"properties", Obj(<< <<"a", Keyword("$ref", Str("#/definitions/a"))>> >>)>> >>)
RefChain == Obj(<< <<"$ref", Str("#/definitions/a")>>, <<"definitions", Obj(<< <<"a", Obj(<< <<"$ref", Str("#/definitions/b")>> >>)>>, <<"b", Obj(<< <<"$ref", Str("#/definitions/c")>> >>)>>, <<"c", TypeOf("integer")>> >>)>> >>)
ScopeFrame == Obj(<< <<"$id", Str(to_string(RootRef.scope))>> >>)

\* C19: following a `$ref` never changes the instance side: the referenced
\* subschema is applied to the same instance node under the same instance
\* path, and only the scope chain (and the schema path, by the `$ref` step)
\* grows, for any chain of nested references.
C19_RefKeepsInstance ==
  /\ Validated /\ HasRef(schema) => \A k \in 1..Len(collected.errs) : collected.errs[k].instance_path = <<>>
  /\ Configured /\ HasRef(schema) /\ IsString(get(schema.kv, "$ref")) /\ RootRef.ok =>
       \A ip \in InstancePaths, sp \in SchemaPaths :
         ref_(cfg, instance, get(schema.kv, "$ref"), schema.kv, ip, push(sp, "$ref"), <<schema>>, ValidationErrors_new, 0)
           = descend(cfg, instance, RootRef.resolved, ip, push(sp, "$ref"), <<schema, ScopeFrame>>, ValidationErrors_new, 1)
  /\ Validated /\ schema = RefBelowProperty /\ IsObject(instance) =>
       /\ \A k \in 1..Len(collected.errs) : collected.errs[k].instance_path = <<"a">> /\ collected.errs[k].schema_path = <<"type", "$ref", "a", "properties">>
       /\ (collected.errs # <<>>) <=> (contains_key(instance.kv, "a") /\ ~TypeMatches(get(instance.kv, "a"), "integer"))
  /\ Validated /\ schema = RefChain =>
       /\ \A k \in 1..Len(collected.errs) : collected.errs[k].instance_path = <<>> /\ collected.errs[k].schema_path = <<"type", "$ref", "$ref", "$ref">>
       /\ (collected.errs # <<>>) <=> ~TypeMatches(instance, "integer")

\* Three references deep, "hi" is rejected by `type: integer` at the root of
\* the instance.
C19_Witness == phase = "done" /\ schema = RefChain /\ instance = Str("hi") /\ Len(collected.errs) = 1 /\ collected.errs[1].instance_path = <<>> /\ collected.errs[1].schema_path = <<"type", "$ref", "$ref", "$ref">>

\* The resources of the model as URLs without fragment, and the document the
\* lookup order of the resolver gives for each.
LookupUrls == {AbsUrl(r[1], r[2], r[3], FALSE, "") : r \in Resources}
MetaSchemaUris == {"http://json-schema.org/draft-04/schema", "http://json-schema.org/draft-06/schema", "http://json-schema.org/draft-07/schema"}
MetaSchemaOf(uri) == get_schema(CASE uri = "http://json-schema.org/draft-04/schema" -> "Draft4" [] uri = "http://json-schema.org/draft-06/schema" -> "Draft6" [] uri = "http://json-schema.org/draft-07/schema" -> "Draft7")
Indexed(uri) == {k \in 1..Len(cfg.resolver.id_mapping) : cfg.resolver.id_mapping[k][1] = uri}
ExpectedLookup(uri) ==
  IF uri = "document:///" THEN [ok |-> TRUE, doc |-> schema]
  ELSE IF uri \in MetaSchemaUris THEN [ok |-> TRUE, doc |-> MetaSchemaOf(uri)]
  ELSE IF Indexed(uri) # {} THEN [ok |-> TRUE, doc |-> cfg.resolver.id_mapping[CHOOSE k \in Indexed(uri) : \A j \in Indexed(uri) : j <= k][2]]
  ELSE [ok |-> FALSE, doc |-> None]

\* The schema whose reference names a meta-schema URI that is also the `$id`
\* of one of its subschemas.
MetaSchemaAndId == Obj(<< <<"$ref", Str("http://json-schema.org/draft-06/schema#/definitions/a")>>, <<"definitions", Obj(<< <<"m", Obj(<< <<"$id", Str("http://json-schema.org/draft-06/schema")>>, <<"definitions", Obj(<< <<"a", Bool(FALSE)>> >>)>> >>)>> >>)>> >>)
ResolutionFailed == HasRef(schema) /\ IsString(get(schema.kv, "$ref")) /\ ~RootRef.ok /\ RootRef.msg \in {"Can't resolve url", "Couldn't resolve JSON pointer"}

IsMultiple(inst, divisor) == Abs(inst.h) % Abs(divisor.h) = 0

MultipleOfSchema == schema \in KeywordSchemas /\ schema.kv[1][1] = "multipleOf" /\ IsNumber(schema.kv[1][2]) /\ schema.kv[1][2].h # 0

\* C21: `multipleOf` gives a verdict for every combination of an integer or
\* float instance with an integer or float non-zero divisor: no run aborts,
\* and an error is recorded exactly when the instance is no multiple of the
\* divisor (the remainder for an integer instance, the quotient for a float).
C21_MultipleOf ==
  phase \in {"validated", "crashed"} /\ MultipleOfSchema /\ IsNumber(instance) =>
    /\ collected.abort = "none"
    /\ (collected.errs # <<>>) <=> ~IsMultiple(instance, schema.kv[1][2])

BoundKeywords == {"minimum", "maximum", "exclusiveMinimum", "exclusiveMaximum"}

\* The schemas made of the bound keywords alone.
BoundSchema == IsObject(schema) /\ schema.kv # <<>> /\ \A k \in 1..Len(schema.kv) : schema.kv[k][1] \in BoundKeywords

\* Whether the keyword of a bound schema rejects the number, by draft: in
\* Draft 4 the bound is strict exactly when its sibling is `true`; in Draft 6
\* and 7 the bounds are non-strict and the exclusive bounds are strict.
Rejects(draft, parent, keyword, n) ==
  LET bound == get_opt(parent, keyword)
  IN IF ~IsNumber(bound) THEN FALSE
     ELSE IF draft = "Draft4"
     THEN CASE keyword = "minimum" -> IF get_opt(parent, "exclusiveMinimum") = Bool(TRUE) THEN n.h <= bound.h ELSE n.h < bound.h
            [] keyword = "maximum" -> IF get_opt(parent, "exclusiveMaximum") = Bool(TRUE) THEN n.h >= bound.h ELSE n.h > bound.h
            [] OTHER -> FALSE
     ELSE CASE keyword = "minimum" -> n.h < bound.h
            [] keyword = "maximum" -> n.h > bound.h
            [] keyword = "exclusiveMinimum" -> n.h <= bound.h
            [] keyword = "exclusiveMaximum" -> n.h >= bound.h

\* C22: under Draft 4 `minimum` / `maximum` reject an instance equal to the
\* bound exactly when the sibling `exclusiveMinimum` / `exclusiveMaximum` is
\* `true`; under Draft 6 and 7 they are non-strict whatever the siblings are,
\* and the exclusive keywords are strict numeric bounds of their own.  A
\* non-numeric instance gets no error from any of them.
C22_Bounds ==
  Validated /\ BoundSchema =>
    /\ ~IsNumber(instance) => collected.errs = <<>>
    /\ IsNumber(instance) =>
         /\ \A keyword \in BoundKeywords : Len(ErrorsUnder(collected.errs, keyword)) = IF Rejects(cfg.draft, schema.kv, keyword, instance) THEN 1 ELSE 0
         /\ \A k \in 1..Len(collected.errs) : Len(collected.errs[k].schema_path) = 1 /\ collected.errs[k].schema_path[1] \in BoundKeywords

\* Draft 4 has rejected the instance 1 at `minimum`: 1 with the sibling
\* `exclusiveMinimum`: true; Draft 6 has rejected 1 at `exclusiveMinimum` and
\* accepted it at the sibling `minimum`.
C22_Witness ==
  /\ phase = "done" /\ instance = PosInt(1)
  /\ \/ cfg.draft = "Draft4" /\ schema = Obj(<< <<"exclusiveMinimum", Bool(TRUE)>>, <<"minimum", PosInt(1)>> >>) /\ Len(ErrorsUnder(collected.errs, "minimum")) = 1
     \/ cfg.draft = "Draft6" /\ schema = Obj(<< <<"exclusiveMinimum", PosInt(1)>>, <<"minimum", PosInt(1)>> >>) /\ Len(collected.errs) = 1 /\ collected.errs[1].schema_path = <<"exclusiveMinimum">>

\* The errors of the keyword at position k of the root schema, run alone.
KeyErrors(k) == descend_key(cfg, instance, schema.kv, k, <<>>, <<>>, <<schema>>, ValidationErrors_new, 0).errs

\* The errors of the first n keywords of the root schema, one keyword after
\* the other in the iteration order of the schema object.
RECURSIVE ErrorsOfKeys(_)
ErrorsOfKeys(n) == IF n = 0 THEN <<>> ELSE ErrorsOfKeys(n - 1) \o KeyErrors(n)

\* The errors of element k of the root `allOf`, run alone.
ElementErrors(subs, k) == descend(cfg, instance, coerce_draft6(cfg, subs[k]), <<>>, push(push(<<>>, "allOf"), IndexStr(k - 1)), <<schema>>, ValidationErrors_new, 1).errs

RECURSIVE ErrorsOfElements(_, _)
ErrorsOfElements(subs, n) == IF n = 0 THEN <<>> ELSE ErrorsOfElements(subs, n - 1) \o ElementErrors(subs, n)

NestedAllOf ==
  Obj(<< <<"allOf", Arr(<< Obj(<< <<"properties", Obj(<< <<"a", TypeOf("integer")>> >>)>>, <<"required", Arr(<<Str("b")>>)>> >>),
                           Obj(<< <<"maxProperties", PosInt(1)>>, <<"type", Str("array")>> >>) >>)>>,
         <<"type", Str("string")>> >>)

\* C23: the errors of a collect-all run are in depth-first, left-to-right
\* order: the list is the errors of the first keyword of the schema object
\* (with those of its subschemas), then those of the second, and so on, at
\* every step of the run; the errors under `allOf` are those of element 0,
\* then those of element 1, and so on.
C23_ErrorOrder ==
  /\ phase = "validate" /\ collected.abort = "none" /\ IsObject(schema) /\ ~HasRef(schema) => collected.errs = ErrorsOfKeys(i - 1)
  /\ Validated /\ IsObject(schema) /\ ~HasRef(schema) => collected.errs = ErrorsOfKeys(Len(schema.kv))
  /\ Validated /\ IsObject(schema) /\ ~HasRef(schema) /\ IsArray(get_opt(schema.kv, "allOf")) =>
       ErrorsUnder(collected.errs, "allOf") = ErrorsOfElements(get(schema.kv, "allOf").a, Len(get(schema.kv, "allOf").a))
  /\ Validated /\ schema = NestedAllOf /\ instance = Obj(<< <<"a", Str("x")>>, <<"c", Float(2)>> >>) =>
       [k \in 1..Len(collected.errs) |-> Reverse(collected.errs[k].schema_path)] =
         << <<"allOf", "0", "properties", "a", "type">>, <<"allOf", "0", "required">>, <<"allOf", "1", "maxProperties">>, <<"allOf", "1", "type">>, <<"type">> >>

\* The run over the nested schema has emitted its five errors.
C23_Witness == phase = "done" /\ schema = NestedAllOf /\ instance = Obj(<< <<"a", Str("x")>>, <<"c", Float(2)>> >>) /\ Len(collected.errs) = 5

\* The identifier of the root schema under the selected draft.
RootId == id_of(SelectedDraft, schema)

\* C24: the base URI of the resolver is the root identifier when that is an
\* absolute URI and `document:///` in every other case, also for a root
\* identifier that is no absolute URI, and from_schema succeeds.
C24_BaseUri ==
  phase # "start" =>
    /\ cfg.ok
    /\ cfg.resolver.base_url = IF IsSome(RootId) /\ UrlParse(RootId.s).ok THEN RootId.s ELSE DOCUMENT_PROTOCOL

PostDraft4 == {"const", "contains", "propertyNames", "if"}

ValidatorOf(key) == CASE key = "const" -> "const_" [] key = "contains" -> "contains" [] key = "propertyNames" -> "propertyNames" [] key = "if" -> "if_"

\* The run of the validator of a post-Draft 4 keyword on the root schema.
Dispatch(key) ==
  CASE key = "const" -> const_(cfg, instance, get(schema.kv, key), schema.kv, <<>>, <<key>>, <<schema>>, ValidationErrors_new, 0)
    [] key = "contains" -> contains(cfg, instance, get(schema.kv, key), schema.kv, <<>>, <<key>>, <<schema>>, ValidationErrors_new, 0)
    [] key = "propertyNames" -> propertyNames(cfg, instance, get(schema.kv, key), schema.kv, <<>>, <<key>>, <<schema>>, ValidationErrors_new, 0)
    [] key = "if" -> if_(cfg, instance, get(schema.kv, key), schema.kv, <<>>, <<key>>, <<schema>>, ValidationErrors_new, 0)

\* The drafts that have the keyword: Draft 6 and 7, and for `if` (with
\* `then` / `else`) Draft 7 alone, or Draft 6 as well when ifInDraft6.
HasKeyword(draft, key, ifInDraft6) == draft = "Draft7" \/ (draft = "Draft6" /\ (key # "if" \/ ifInDraft6))

PostDraft4Keywords(ifInDraft6) ==
  /\ Configured => \A key \in PostDraft4 : get_validator(cfg.draft, key) = IF HasKeyword(cfg.draft, key, ifInDraft6) THEN ValidatorOf(key) ELSE "None"
  /\ Configured => get_validator(cfg.draft, "then") = "None" /\ get_validator(cfg.draft, "else") = "None"
  /\ Validated /\ schema \in KeywordSchemas /\ schema.kv[1][1] \in PostDraft4 =>
       IF HasKeyword(cfg.draft, schema.kv[1][1], ifInDraft6) THEN collected = Dispatch(schema.kv[1][1]) ELSE collected.errs = <<>>
  /\ Validated /\ schema = IfThenElse /\ instance = PosInt(1) =>
       (collected.errs # <<>>) <=> HasKeyword(cfg.draft, "if", ifInDraft6)

\* C25: `const`, `contains` and `propertyNames` are skipped like an unknown
\* keyword under Draft 4 and dispatched to their validators under Draft 6 and
\* Draft 7; `if` (with `then` / `else`) is skipped under Draft 4 and Draft 6
\* and dispatched under Draft 7 alone.
C25_PostDraft4 == PostDraft4Keywords(FALSE)

\* The statement with `if` dispatched under Draft 6 as well.
C25_IfInDraft6 == PostDraft4Keywords(TRUE)

\* Draft 6 has run `const` on a string and recorded its error, and has run
\* over `if` / `then` / `else` without one.
C25_Witness ==
  /\ phase = "done" /\ cfg.draft = "Draft6"
  /\ \/ schema = Keyword("const", PosInt(1)) /\ instance = Str("hi") /\ Len(collected.errs) = 1
     \/ schema = IfThenElse /\ instance = PosInt(1) /\ collected.errs = <<>>

\* The subschemas of a root `anyOf`.
AnyOfSubs == IF IsObject(schema) /\ ~HasRef(schema) /\ IsArray(get_opt(schema.kv, "anyOf")) THEN get(schema.kv, "anyOf").a ELSE <<>>

\* C26: a speculative validator runs each child subschema on a fast-fail
\* recorder, whatever recorder its caller has: the run of a child of `anyOf`
\* stops at its first error and never holds more than one.
C26_SpeculativeFastFail ==
  Validated =>
    \A k \in 1..Len(AnyOfSubs) :
      Len(anyOf_local_errors(cfg, instance, AnyOfSubs[k], k - 1, <<>>, <<"anyOf">>, <<schema>>, 0).errs) <= 1

\* A reference two `items` below the root, under a subschema that changes
\* the base URI: the root is http://example.com/root.json, the subschema
\* folder/, and item.json names one subschema in each of the two scopes.
NestedScope ==
  Obj(<< <<"$id", Str("http://example.com/root.json")>>, <<"definitions", Obj(<< <<"g", Obj(<< <<"$id", Str("item.json")>>, <<"type", Str("integer")>> >>)>> >>)>>,
         <<"items", Obj(<< <<"$id", Str("folder/")>>, <<"definitions", Obj(<< <<"f", Obj(<< <<"$id", Str("item.json")>>, <<"type", Str("string")>> >>)>> >>)>>, <<"items", Keyword("$ref", Str("item.json"))>> >>)>> >>)

\* The reference resolved against the join of the identifiers of all its
\* ancestors, outermost first: the root and the subschema under `items`.
ScopedTarget == resolve_fragment(cfg.resolver, cfg.draft, "item.json", <<schema, get(schema.kv, "items")>>, schema)

\* The elements the reference is applied to.
InnerElements == IF IsArray(instance) THEN UNION {{instance.a[j].a[k] : k \in 1..Len(instance.a[j].a)} : j \in {n \in 1..Len(instance.a) : IsArray(instance.a[n])}} ELSE {}

\* C27: a `$ref` is resolved against the join, from the global base, of the
\* identifiers of every `$id`-bearing ancestor of its subschema, also of the
\* ancestors entered through `items` or `properties`: the reference
\* item.json below the subschema folder/ is http://example.com/folder/item.json,
\* and the run accepts exactly when that subschema accepts every element.
C27_RefScope ==
  Validated /\ schema = NestedScope =>
    /\ ScopedTarget.ok /\ to_string(ScopedTarget.scope) = "http://example.com/folder/item.json"
    /\ (collected.errs = <<>>) <=> \A e \in InnerElements : descend(cfg, e, ScopedTarget.resolved, <<>>, <<>>, <<schema>>, ValidationErrors_new, 1).errs = <<>>

\* C28: a boolean `items` is applied to the elements in Draft 6 and 7 only:
\* there `items: false` rejects exactly the non-empty arrays and `items:
\* true` accepts every array; under Draft 4 a boolean `items` is applied to
\* no element and records nothing.
C28_BooleanItems ==
  Validated /\ schema \in {Keyword("items", Bool(FALSE)), Keyword("items", Bool(TRUE))} =>
    IF cfg.draft = "Draft4" THEN collected.errs = <<>>
    ELSE (collected.errs # <<>>) <=> (schema = Keyword("items", Bool(FALSE)) /\ IsArray(instance) /\ instance.a # <<>>)

\* C29: a fast-fail run records at most one error, stops with it, and that
\* error is the first one of the collect-all run: no validator runs after
\* it, whether the error came from the root schema or from below a loop over
\* properties, items, allOf elements or schema keys.
C29_FastFailStops ==
  /\ phase \in {"is_valid", "done"} =>
       /\ Len(first.errs) <= 1
       /\ first.errs # <<>> => first.stop /\ RunOver(schema, i, first) /\ first.errs[1] = collected.errs[1]
  /\ phase = "done" =>
       /\ first.errs = IF collected.errs = <<>> THEN <<>> ELSE <<collected.errs[1]>>
       /\ is_valid(cfg, instance, schema) = first

\* The run that collects five errors has stopped at the first of them, two
\* loops below the root.
C29_Witness ==
  /\ phase = "done" /\ schema = NestedAllOf /\ Len(collected.errs) = 5
  /\ Len(first.errs) = 1 /\ Reverse(first.errs[1].schema_path) = <<"allOf", "0", "properties", "a", "type">>

SizeKeywords == {"minItems", "maxItems", "minLength", "maxLength", "minProperties", "maxProperties"}

\* A size keyword with a number that is negative or not integer-encoded, or
\* `multipleOf` with the divisor 0.
OddNumberSchema ==
  /\ schema \in KeywordSchemas /\ IsNumber(schema.kv[1][2])
  /\ \/ schema.kv[1][1] \in SizeKeywords /\ ~is_u64(schema.kv[1][2])
     \/ schema.kv[1][1] = "multipleOf" /\ schema.kv[1][2].h = 0

\* C30: no keyword validator aborts the run because of the number its
\* keyword holds: with a negative or non-integer size, or the divisor 0, the
\* run returns with no error or with one error, for every instance.
C30_NoAbort ==
  phase \in {"validated", "crashed"} /\ OddNumberSchema => collected.abort = "none" /\ Len(collected.errs) <= 1

====
